---- MODULE Spec2Model ----
(***************************************************************************)
(* The A2A sample server (samples/rust): the in-memory TaskStore, its      *)
(* update broadcast, and the callers that drive it.                        *)
(*                                                                         *)
(* Option<T> is a sequence of length at most one: None is <<>> and         *)
(* Some(x) is <<x>>.  The HashMap of tasks is a function whose DOMAIN is   *)
(* the set of stored ids.  A store operation takes the mutex in one step   *)
(* and runs its body in further steps, the last of which publishes the     *)
(* update, returns and drops the guard.                                    *)
(***************************************************************************)
EXTENDS Integers, Sequences, FiniteSets, TLC

\* ------------------------------------------------------------------ bounds
MaxCalls == 3
MaxSeqCalls == 4
MaxRequests == 2
MaxClock == 1
MaxBurst == 103

Procs == {"p1", "p2"}
TaskIds == {"t1", "t2"}
Subs == {"s1"}

\* ------------------------------------------------------------------- types
None == <<>>
Some(x) == <<x>>

TaskState ==
  {"Submitted", "Working", "InputRequired", "Completed",
   "Canceled", "Failed", "Rejected", "Unknown"}

TaskStatus(state, message, timestamp) ==
  [state |-> state, message |-> message, timestamp |-> timestamp]

Task(id, session_id, status, artifacts, metadata) ==
  [id |-> id, session_id |-> session_id, status |-> status,
   artifacts |-> artifacts, metadata |-> metadata]

\* Part::Text(TextPart { part_type: "text", text, metadata: None })
TextPart(text) == [variant |-> "Text", part_type |-> "text", text |-> text]

Message(role, parts) == [role |-> role, parts |-> parts]

Artifact(name, parts, index, append) ==
  [name |-> name, parts |-> parts, index |-> index, append |-> append]

Ok(t) == [ok |-> TRUE, val |-> Some(t), err |-> "None"]
Err(kind) == [ok |-> FALSE, val |-> None, err |-> kind]
NoResult == [ok |-> FALSE, val |-> None, err |-> "Pending"]

Clock == 0..MaxClock

\* ------------------------------------------------------------------- state
VARIABLES
  tasks,         \* TaskStore.tasks: the HashMap behind the mutex
  mutex,         \* holder of the store mutex, or "Free"
  task_updates,  \* TaskStore.task_updates: per receiver, its undelivered tasks
  now,           \* the reading Utc::now() gives
  pc,            \* per caller: what it does with the store's answer
  spc,           \* per caller: position inside the store operation
  call,          \* per caller: the store operation in progress
  ret,           \* per caller: the A2AResult<Task> of its last store call
  ncalls,        \* store calls and requests started so far
  trace,         \* per caller: the calls it has made and what they returned
  variant,       \* what drives the store: "store" callers, the "plain" server
                 \* or the "agent" server
  req,           \* per handler: the JSON payload of the request it serves
  resp,          \* per handler: the last HTTP response it gave
  agent,         \* holder of the agent mutex (agent server), or "Free"
  processed,     \* per handler: the task the adapter returned and those of
                 \* its artifacts that are not yet added
  part,          \* the Part that is serialized, if one is
  wire,          \* the JSON value made of it, or received
  decoded        \* the Result of deserializing the JSON value

cvars == <<part, wire, decoded>>

hvars == <<variant, req, resp, agent, processed, cvars>>

vars == <<tasks, mutex, task_updates, now, pc, spc, call, ret, ncalls, trace,
          variant, req, resp, agent, processed, part, wire, decoded>>

\* ----------------------------------------------------------- store calls
StoreCall(kind, id, task, status, artifact) ==
  [kind |-> kind, id |-> id, task |-> task, status |-> status,
   artifact |-> artifact]

NoCall == StoreCall("none", "", None, None, None)

GetCall(id) == StoreCall("get_task", id, None, None, None)
CreateCall(task) == StoreCall("create_task", task.id, Some(task), None, None)
UpdateCall(id, status) ==
  StoreCall("update_task_status", id, None, Some(status), None)
ArtifactCall(id, artifact) ==
  StoreCall("add_artifact", id, None, None, Some(artifact))
CancelCall(id) == StoreCall("cancel_task", id, None, None, None)

Mutating == {"create_task", "update_task_status", "add_artifact", "cancel_task"}

\* ---------------------------------------------------------------- channel
ChannelCapacity == 100

\* a broadcast::Receiver: the values it has not taken yet, and how many it
\* has lost since it last called recv
Receiver(active, queue, lagged) ==
  [active |-> active, queue |-> queue, lagged |-> lagged]

SendToNobody(chan, t) == chan

\* broadcast::Sender::send: every live receiver gets the value; a receiver
\* that is a whole buffer behind loses its oldest value.
Send(chan, t) ==
  [s \in Subs |->
     IF chan[s].active
       THEN IF Len(chan[s].queue) >= ChannelCapacity
              THEN Receiver(TRUE, Append(Tail(chan[s].queue), t),
                            chan[s].lagged + 1)
              ELSE Receiver(TRUE, Append(chan[s].queue, t), chan[s].lagged)
       ELSE chan[s]]

\* ---------------------------------------------------------- wire payloads
\* the JSON value of a request; id is absent (or null), a string or a number
JsonId(kind, val) == [kind |-> kind, val |-> val]

Params(id, session_id, sessionId, message) ==
  [id |-> id, session_id |-> session_id, sessionId |-> sessionId,
   message |-> message]

Payload(jsonrpc, id, method, params) ==
  [jsonrpc |-> jsonrpc, id |-> id, method |-> method, params |-> params]

NoPayload == Payload(None, JsonId("absent", ""), None, Params(None, None, None, None))

\* JsonRpcResponse with the HTTP status it is sent with
JsonRpcError(code, message) == [code |-> code, message |-> message]

JsonRpcResponse(status, id, result, error) ==
  [status |-> status, id |-> id, result |-> result, error |-> error]

NoResponse == JsonRpcResponse(0, None, None, None)

\* ------------------------------------------------------------------- Init
InitWith(v) ==
  /\ tasks = <<>>
  /\ mutex = "Free"
  /\ task_updates = [s \in Subs |-> Receiver(FALSE, <<>>, 0)]
  /\ now = 0
  /\ pc = [p \in Procs |-> "idle"]
  /\ spc = [p \in Procs |-> "none"]
  /\ call = [p \in Procs |-> NoCall]
  /\ ret = [p \in Procs |-> NoResult]
  /\ ncalls = 0
  /\ trace = [p \in Procs |-> <<>>]
  /\ variant = v
  /\ req = [p \in Procs |-> NoPayload]
  /\ resp = [p \in Procs |-> NoResponse]
  /\ agent = "Free"
  /\ processed = [p \in Procs |-> None]
  /\ part = None
  /\ wire = None
  /\ decoded = NoResult

Init == InitWith("store")

\* -------------------------------------------------------------- the clock
Tick ==
  /\ now < MaxClock
  /\ now' = now + 1
  /\ UNCHANGED <<tasks, mutex, task_updates, pc, spc, call, ret, ncalls, trace, hvars>>

\* ------------------------------------------------------------ subscribers
subscribe(s) ==
  /\ ~task_updates[s].active
  /\ task_updates' = [task_updates EXCEPT ![s] = Receiver(TRUE, <<>>, 0)]
  /\ UNCHANGED <<tasks, mutex, now, pc, spc, call, ret, ncalls, trace, hvars>>

\* a receiver that has lost values is told how many (RecvError::Lagged) and
\* goes on at the oldest value kept; otherwise it takes the oldest value
recv(s) ==
  /\ task_updates[s].active
  /\ IF task_updates[s].lagged > 0
       THEN task_updates' = [task_updates EXCEPT ![s].lagged = 0]
       ELSE /\ task_updates[s].queue # <<>>
            /\ task_updates' = [task_updates EXCEPT ![s].queue = Tail(@)]
  /\ UNCHANGED <<tasks, mutex, now, pc, spc, call, ret, ncalls, trace, hvars>>

\* enum A2AError: its variants
A2AError ==
  {"SerializationError", "HttpError", "TaskNotFound", "InvalidRequest",
   "MethodNotFound", "InternalServerError", "TaskNotCancelable",
   "UnsupportedOperation"}

\* ------------------------------------------------------------ error codes
ErrorCodeMethodAsInvalid(kind) ==
  CASE kind = "TaskNotFound" -> -32001
    [] kind = "InvalidRequest" -> -32600
    [] kind = "MethodNotFound" -> -32600
    [] kind = "TaskNotCancelable" -> -32002
    [] kind = "UnsupportedOperation" -> -32004
    [] OTHER -> -32603

\* impl IntoResponse for A2AError: the (status, error_code) of each variant
ErrorCode(kind) ==
  CASE kind = "TaskNotFound" -> -32001
    [] kind = "InvalidRequest" -> -32600
    [] kind = "MethodNotFound" -> -32601
    [] kind = "TaskNotCancelable" -> -32002
    [] kind = "UnsupportedOperation" -> -32004
    [] OTHER -> -32603

HttpStatusNotFoundAsBadRequest(kind) ==
  CASE kind = "TaskNotFound" -> 400
    [] kind = "InvalidRequest" -> 400
    [] kind = "MethodNotFound" -> 404
    [] kind = "TaskNotCancelable" -> 400
    [] kind = "UnsupportedOperation" -> 400
    [] OTHER -> 500

HttpStatus(kind) ==
  CASE kind = "TaskNotFound" -> 404
    [] kind = "InvalidRequest" -> 400
    [] kind = "MethodNotFound" -> 404
    [] kind = "TaskNotCancelable" -> 400
    [] kind = "UnsupportedOperation" -> 400
    [] OTHER -> 500

\* -------------------------------------------------------- store operations
PutIfAbsent(m, id, t) ==
  [k \in (DOMAIN m) \cup {id} |-> IF k \in DOMAIN m THEN m[k] ELSE t]

Put(m, id, t) == [k \in (DOMAIN m) \cup {id} |-> IF k = id THEN t ELSE m[k]]

CancelableAlsoUnknown(state) ==
  state \in {"Submitted", "Working", "InputRequired", "Unknown"}

Cancelable(state) == state \in {"Submitted", "Working", "InputRequired"}

LockWithoutWaiting(p) ==
  /\ spc[p] = "lock"
  /\ mutex' = p
  /\ spc' = [spc EXCEPT ![p] = "body"]
  /\ UNCHANGED <<tasks, task_updates, now, pc, call, ret, ncalls, trace, hvars>>

LockWhenAgentFree(p) ==
  /\ spc[p] = "lock"
  /\ mutex = "Free"
  /\ agent \in {"Free", p}
  /\ mutex' = p
  /\ spc' = [spc EXCEPT ![p] = "body"]
  /\ UNCHANGED <<tasks, task_updates, now, pc, call, ret, ncalls, trace, hvars>>

\* self.tasks.lock().unwrap()
Lock(p) ==
  /\ spc[p] = "lock"
  /\ mutex = "Free"
  /\ mutex' = p
  /\ spc' = [spc EXCEPT ![p] = "body"]
  /\ UNCHANGED <<tasks, task_updates, now, pc, call, ret, ncalls, trace, hvars>>

ReturnKeepingGuard(p, r) ==
  /\ ret' = [ret EXCEPT ![p] = r]
  /\ spc' = [spc EXCEPT ![p] = "ret"]
  /\ mutex' = mutex

\* the operation returns r and its guard is dropped
Return(p, r) ==
  /\ ret' = [ret EXCEPT ![p] = r]
  /\ spc' = [spc EXCEPT ![p] = "ret"]
  /\ mutex' = "Free"

get_task_or_default(p) ==
  /\ spc[p] = "body"
  /\ call[p].kind = "get_task"
  /\ Return(p, IF call[p].id \in DOMAIN tasks
                 THEN Ok(tasks[call[p].id])
                 ELSE Ok(Task(call[p].id, None,
                              TaskStatus("Unknown", None, now), None, None)))
  /\ UNCHANGED <<tasks, task_updates, now, pc, call, ncalls, trace, hvars>>

get_task(p) ==
  /\ spc[p] = "body"
  /\ call[p].kind = "get_task"
  /\ Return(p, IF call[p].id \in DOMAIN tasks
                 THEN Ok(tasks[call[p].id])
                 ELSE Err("TaskNotFound"))
  /\ UNCHANGED <<tasks, task_updates, now, pc, call, ncalls, trace, hvars>>

create_task_unlocking_before_send(p) ==
  /\ spc[p] = "body"
  /\ call[p].kind = "create_task"
  /\ tasks' = Put(tasks, call[p].task[1].id, call[p].task[1])
  /\ spc' = [spc EXCEPT ![p] = "send"]
  /\ mutex' = "Free"
  /\ UNCHANGED <<task_updates, now, pc, call, ret, ncalls, trace, hvars>>

create_task_rejecting_existing(p) ==
  /\ spc[p] = "body"
  /\ call[p].kind = "create_task"
  /\ IF call[p].task[1].id \in DOMAIN tasks
       THEN /\ Return(p, Err("InvalidRequest"))
            /\ UNCHANGED tasks
       ELSE /\ tasks' = Put(tasks, call[p].task[1].id, call[p].task[1])
            /\ spc' = [spc EXCEPT ![p] = "send"]
            /\ UNCHANGED <<mutex, ret>>
  /\ UNCHANGED <<task_updates, now, pc, call, ncalls, trace, hvars>>

\* tasks.insert(task.id.clone(), task.clone())
create_task(p) ==
  /\ spc[p] = "body"
  /\ call[p].kind = "create_task"
  /\ tasks' = Put(tasks, call[p].task[1].id, call[p].task[1])
  /\ spc' = [spc EXCEPT ![p] = "send"]
  /\ UNCHANGED <<mutex, task_updates, now, pc, call, ret, ncalls, trace, hvars>>

update_task_status_unless_terminal(p) ==
  /\ spc[p] = "body"
  /\ call[p].kind = "update_task_status"
  /\ IF call[p].id \in DOMAIN tasks
       THEN /\ tasks' = IF tasks[call[p].id].status.state
                             \in {"Completed", "Canceled", "Failed", "Rejected"}
                          THEN tasks
                          ELSE [tasks EXCEPT ![call[p].id].status = call[p].status[1]]
            /\ spc' = [spc EXCEPT ![p] = "send"]
            /\ UNCHANGED <<mutex, ret>>
       ELSE /\ Return(p, Err("TaskNotFound"))
            /\ UNCHANGED tasks
  /\ UNCHANGED <<task_updates, now, pc, call, ncalls, trace, hvars>>

update_task_status_unless_submitted(p) ==
  /\ spc[p] = "body"
  /\ call[p].kind = "update_task_status"
  /\ IF call[p].id \in DOMAIN tasks
       THEN /\ tasks' = IF tasks[call[p].id].status.state = "Submitted"
                          THEN tasks
                          ELSE [tasks EXCEPT ![call[p].id].status = call[p].status[1]]
            /\ spc' = [spc EXCEPT ![p] = "send"]
            /\ UNCHANGED <<mutex, ret>>
       ELSE /\ Return(p, Err("TaskNotFound"))
            /\ UNCHANGED tasks
  /\ UNCHANGED <<task_updates, now, pc, call, ncalls, trace, hvars>>

update_task_state_only(p) ==
  /\ spc[p] = "body"
  /\ call[p].kind = "update_task_status"
  /\ IF call[p].id \in DOMAIN tasks
       THEN /\ tasks' = [tasks EXCEPT ![call[p].id].status.state =
                           call[p].status[1].state]
            /\ spc' = [spc EXCEPT ![p] = "send"]
            /\ UNCHANGED <<mutex, ret>>
       ELSE /\ Return(p, Err("TaskNotFound"))
            /\ UNCHANGED tasks
  /\ UNCHANGED <<task_updates, now, pc, call, ncalls, trace, hvars>>

\* get_mut(id) or TaskNotFound; task.status = status
update_task_status(p) ==
  /\ spc[p] = "body"
  /\ call[p].kind = "update_task_status"
  /\ IF call[p].id \in DOMAIN tasks
       THEN /\ tasks' = [tasks EXCEPT ![call[p].id].status = call[p].status[1]]
            /\ spc' = [spc EXCEPT ![p] = "send"]
            /\ UNCHANGED <<mutex, ret>>
       ELSE /\ Return(p, Err("TaskNotFound"))
            /\ UNCHANGED tasks
  /\ UNCHANGED <<task_updates, now, pc, call, ncalls, trace, hvars>>

\* get_mut(id) or TaskNotFound; if artifacts is None it becomes Some(vec![])
add_artifact(p) ==
  /\ spc[p] = "body"
  /\ call[p].kind = "add_artifact"
  /\ IF call[p].id \in DOMAIN tasks
       THEN /\ tasks' = IF tasks[call[p].id].artifacts = None
                          THEN [tasks EXCEPT ![call[p].id].artifacts = Some(<<>>)]
                          ELSE tasks
            /\ spc' = [spc EXCEPT ![p] = "push"]
            /\ UNCHANGED <<mutex, ret>>
       ELSE /\ Return(p, Err("TaskNotFound"))
            /\ UNCHANGED tasks
  /\ UNCHANGED <<task_updates, now, pc, call, ncalls, trace, hvars>>

add_artifact_push_at_index(p) ==
  /\ spc[p] = "push"
  /\ tasks' = [tasks EXCEPT ![call[p].id].artifacts =
                 IF @ = None THEN @
                 ELSE IF call[p].artifact[1].index < Len(@[1])
                   THEN Some([@[1] EXCEPT ![call[p].artifact[1].index + 1] =
                                call[p].artifact[1]])
                   ELSE Some(Append(@[1], call[p].artifact[1]))]
  /\ spc' = [spc EXCEPT ![p] = "send"]
  /\ UNCHANGED <<mutex, task_updates, now, pc, call, ret, ncalls, trace, hvars>>

\* artifacts.push(artifact)
add_artifact_push(p) ==
  /\ spc[p] = "push"
  /\ tasks' = [tasks EXCEPT ![call[p].id].artifacts =
                 IF @ = None THEN @ ELSE Some(Append(@[1], call[p].artifact[1]))]
  /\ spc' = [spc EXCEPT ![p] = "send"]
  /\ UNCHANGED <<mutex, task_updates, now, pc, call, ret, ncalls, trace, hvars>>

cancel_task_dropping_message(p) ==
  /\ spc[p] = "body"
  /\ call[p].kind = "cancel_task"
  /\ IF call[p].id \notin DOMAIN tasks
       THEN /\ Return(p, Err("TaskNotFound"))
            /\ UNCHANGED tasks
       ELSE IF Cancelable(tasks[call[p].id].status.state)
         THEN /\ tasks' = [tasks EXCEPT ![call[p].id].status =
                             TaskStatus("Canceled", None, now)]
              /\ spc' = [spc EXCEPT ![p] = "send"]
              /\ UNCHANGED <<mutex, ret>>
         ELSE /\ Return(p, Err("TaskNotCancelable"))
              /\ UNCHANGED tasks
  /\ UNCHANGED <<task_updates, now, pc, call, ncalls, trace, hvars>>

cancel_task_removing(p) ==
  /\ spc[p] = "body"
  /\ call[p].kind = "cancel_task"
  /\ IF call[p].id \notin DOMAIN tasks
       THEN /\ Return(p, Err("TaskNotFound"))
            /\ UNCHANGED tasks
       ELSE IF Cancelable(tasks[call[p].id].status.state)
         THEN /\ tasks' = [k \in DOMAIN tasks \ {call[p].id} |-> tasks[k]]
              /\ Return(p, Ok([tasks[call[p].id] EXCEPT !.status =
                                 TaskStatus("Canceled", @.message, now)]))
         ELSE /\ Return(p, Err("TaskNotCancelable"))
              /\ UNCHANGED tasks
  /\ UNCHANGED <<task_updates, now, pc, call, ncalls, trace, hvars>>

\* get_mut(id) or TaskNotFound; match task.status.state
cancel_task(p) ==
  /\ spc[p] = "body"
  /\ call[p].kind = "cancel_task"
  /\ IF call[p].id \notin DOMAIN tasks
       THEN /\ Return(p, Err("TaskNotFound"))
            /\ UNCHANGED tasks
       ELSE IF Cancelable(tasks[call[p].id].status.state)
         THEN /\ tasks' = [tasks EXCEPT ![call[p].id].status =
                             TaskStatus("Canceled", @.message, now)]
              /\ spc' = [spc EXCEPT ![p] = "send"]
              /\ UNCHANGED <<mutex, ret>>
         ELSE /\ Return(p, Err("TaskNotCancelable"))
              /\ UNCHANGED tasks
  /\ UNCHANGED <<task_updates, now, pc, call, ncalls, trace, hvars>>

\* the value an operation publishes and returns: create_task its argument,
\* the others the clone of the stored task
Updated(p) ==
  IF call[p].kind = "create_task" THEN call[p].task[1] ELSE tasks[call[p].id]

send_update_failing_without_receivers(p) ==
  /\ spc[p] = "send"
  /\ task_updates' = Send(task_updates, Updated(p))
  /\ Return(p, IF \E s \in Subs : task_updates[s].active
                 THEN Ok(Updated(p))
                 ELSE Err("InternalServerError"))
  /\ UNCHANGED <<tasks, now, pc, call, ncalls, trace, hvars>>

\* let _ = self.task_updates.send(updated_task.clone()); Ok(updated_task)
send_update(p) ==
  /\ spc[p] = "send"
  /\ task_updates' = Send(task_updates, Updated(p))
  /\ Return(p, Ok(Updated(p)))
  /\ UNCHANGED <<tasks, now, pc, call, ncalls, trace, hvars>>

\* ------------------------------------------------- callers of the store API
UserMessage == Message("user", <<TextPart(<<"hi">>)>>)
WorkingMessage == Message("agent", <<TextPart(<<"Working", "on", "it...">>)>>)

ResultArtifact == Artifact(Some("result"), <<TextPart(<<"sample">>)>>, 0, None)
ChunkArtifact == Artifact(None, <<TextPart(<<"chunk">>)>>, 1, Some(TRUE))

\* the tasks a caller hands to create_task: as in the unit tests (no
\* optional field set) in every state, and with every optional field set
NewTasks(ts) ==
  {Task("t1", None, TaskStatus(st, None, ts), None, None) : st \in TaskState}
  \cup
  {Task("t1", Some("s1"), TaskStatus("Working", Some(UserMessage), ts),
        Some(<<ResultArtifact>>), Some("meta")),
   Task("t2", Some("s2"), TaskStatus("Submitted", None, ts), None, None)}

NewStatuses(ts) ==
  {TaskStatus("Working", Some(WorkingMessage), ts),
   TaskStatus("InputRequired", None, ts),
   TaskStatus("Completed", Some(WorkingMessage), ts)}

DirectCalls(ts) ==
  {GetCall(id) : id \in TaskIds}
  \cup {CreateCall(t) : t \in NewTasks(ts)}
  \cup {UpdateCall("t1", s) : s \in NewStatuses(ts)}
  \cup {UpdateCall("t2", TaskStatus("Failed", None, ts))}
  \cup {ArtifactCall("t1", a) : a \in {ResultArtifact, ChunkArtifact}}
  \cup {ArtifactCall("t2", ChunkArtifact)}
  \cup {CancelCall(id) : id \in TaskIds}

\* a thread that owns a clone of the store calls one of its methods
StoreCaller(p) ==
  /\ pc[p] = "idle"
  /\ spc[p] \in {"none", "ret"}
  /\ ncalls < MaxCalls
  /\ \E c \in DirectCalls(now) :
       call' = [call EXCEPT ![p] = c]
  /\ spc' = [spc EXCEPT ![p] = "lock"]
  /\ ret' = [ret EXCEPT ![p] = NoResult]
  /\ ncalls' = ncalls + 1
  /\ UNCHANGED <<tasks, mutex, task_updates, now, pc, trace, hvars>>

NextStore ==
  \/ \E s \in Subs : subscribe(s)
  \/ \E s \in Subs : recv(s)
  \/ \E p \in Procs : StoreCaller(p)
  \/ \E p \in Procs : Lock(p)
  \/ \E p \in Procs : get_task(p)
  \/ \E p \in Procs : create_task(p)
  \/ \E p \in Procs : update_task_status(p)
  \/ \E p \in Procs : add_artifact(p)
  \/ \E p \in Procs : add_artifact_push(p)
  \/ \E p \in Procs : cancel_task(p)
  \/ \E p \in Procs : send_update(p)

SpecStore == Init /\ [][NextStore]_vars

\* ------------------------------------------- the store while time passes
NextClock ==
  \/ Tick
  \/ \E p \in Procs : StoreCaller(p)
  \/ \E p \in Procs : Lock(p)
  \/ \E p \in Procs : get_task(p)
  \/ \E p \in Procs : create_task(p)
  \/ \E p \in Procs : update_task_status(p)
  \/ \E p \in Procs : add_artifact(p)
  \/ \E p \in Procs : add_artifact_push(p)
  \/ \E p \in Procs : cancel_task(p)
  \/ \E p \in Procs : send_update(p)

SpecClock == Init /\ [][NextClock]_vars

\* ------------------------------------ the store under a long run of updates
Publisher == "p1"

\* one thread creates t1 and then updates its status again and again, each
\* status stamped with a later reading of the clock
Burst ==
  /\ pc[Publisher] = "idle"
  /\ spc[Publisher] \in {"none", "ret"}
  /\ ncalls < MaxBurst
  /\ now' = now + 1
  /\ call' = [call EXCEPT ![Publisher] =
                IF "t1" \in DOMAIN tasks
                  THEN UpdateCall("t1", TaskStatus("Working", None, now'))
                  ELSE CreateCall(Task("t1", None,
                                       TaskStatus("Submitted", None, now'),
                                       None, None))]
  /\ spc' = [spc EXCEPT ![Publisher] = "lock"]
  /\ ret' = [ret EXCEPT ![Publisher] = NoResult]
  /\ ncalls' = ncalls + 1
  /\ UNCHANGED <<tasks, mutex, task_updates, pc, trace, hvars>>

NextBurst ==
  \/ \E s \in Subs : subscribe(s)
  \/ \E s \in Subs : recv(s)
  \/ Burst
  \/ \E p \in Procs : Lock(p)
  \/ \E p \in Procs : create_task(p)
  \/ \E p \in Procs : update_task_status(p)
  \/ \E p \in Procs : send_update(p)

SpecBurst == Init /\ [][NextBurst]_vars

\* ------------------------------------------- Part on the wire (types.rs)
\* a HashMap<String, Value> and a JSON object are the sequence of their
\* key/value pairs; Field is the value under a key, if there is one
Field(o, k) ==
  IF \E i \in 1..Len(o) : o[i][1] = k
    THEN Some(o[CHOOSE i \in 1..Len(o) : o[i][1] = k][2])
    ELSE None

FileContent(name, mime_type, bytes, uri) ==
  [name |-> name, mime_type |-> mime_type, bytes |-> bytes, uri |-> uri]

NoFile == FileContent(None, None, None, None)

\* enum Part: the variant and the fields of its struct; the fields of the
\* other two structs are left empty
PartOf(v, part_type, text, file, data, metadata) ==
  [variant |-> v, part_type |-> part_type, text |-> text, file |-> file,
   data |-> data, metadata |-> metadata]

TextPartOf(part_type, text, metadata) ==
  PartOf("Text", part_type, text, NoFile, <<>>, metadata)
FilePart(part_type, file, metadata) ==
  PartOf("File", part_type, "", file, <<>>, metadata)
DataPart(part_type, data, metadata) ==
  PartOf("Data", part_type, "", NoFile, data, metadata)

\* serde_json::Value: a string, a number or an object
JsonString(s) == [kind |-> "string", str |-> s, obj |-> <<>>]
JsonNumber(n) == [kind |-> "number", str |-> n, obj |-> <<>>]
JsonObject(o) == [kind |-> "object", str |-> "", obj |-> o]

\* the JSON object of a part: the value under each key that is present
Wire(type, text, file, data, metadata) ==
  [type |-> type, text |-> text, file |-> file, data |-> data,
   metadata |-> metadata]

IsString(v) == v # None /\ v[1].kind = "string"
IsObject(v) == v # None /\ v[1].kind = "object"

\* #[serde(skip_serializing_if = "Option::is_none")]
SkipNone(k, v) == IF v = None THEN <<>> ELSE <<<<k, v[1]>>>>

\* Serialize for FileContent
file_to_value(f) ==
  SkipNone("name", f.name) \o SkipNone("mime_type", f.mime_type)
    \o SkipNone("bytes", f.bytes) \o SkipNone("uri", f.uri)

\* Deserialize for FileContent: a missing key gives None
file_from_value(o) ==
  FileContent(Field(o, "name"), Field(o, "mime_type"), Field(o, "bytes"),
              Field(o, "uri"))

metadata_to_value(p) ==
  IF p.metadata = None THEN None ELSE Some(JsonObject(p.metadata[1]))

\* Serialize for Part (untagged): the object of the struct of the variant
to_value(p) ==
  CASE p.variant = "Text" ->
         Wire(Some(JsonString(p.part_type)), Some(JsonString(p.text)), None,
              None, metadata_to_value(p))
    [] p.variant = "File" ->
         Wire(Some(JsonString(p.part_type)), None,
              Some(JsonObject(file_to_value(p.file))), None,
              metadata_to_value(p))
    [] p.variant = "Data" ->
         Wire(Some(JsonString(p.part_type)), None, None,
              Some(JsonObject(p.data)), metadata_to_value(p))

\* the keys every struct needs: type is a string, metadata an object if it
\* is there
CommonOk(w) == IsString(w.type) /\ (w.metadata = None \/ IsObject(w.metadata))

metadata_from_value(w) ==
  IF w.metadata = None THEN None ELSE Some(w.metadata[1].obj)

text_from_value_with_default(w) ==
  IF CommonOk(w) /\ (w.text = None \/ IsString(w.text))
    THEN Some(TextPartOf(w.type[1].str,
                         IF w.text = None THEN "" ELSE w.text[1].str,
                         metadata_from_value(w)))
    ELSE None

\* Deserialize for TextPart: keys the struct does not have are ignored
text_from_value(w) ==
  IF CommonOk(w) /\ IsString(w.text)
    THEN Some(TextPartOf(w.type[1].str, w.text[1].str, metadata_from_value(w)))
    ELSE None

\* Deserialize for FilePart
filepart_from_value(w) ==
  IF CommonOk(w) /\ IsObject(w.file)
    THEN Some(FilePart(w.type[1].str, file_from_value(w.file[1].obj),
                       metadata_from_value(w)))
    ELSE None

\* Deserialize for DataPart
datapart_from_value(w) ==
  IF CommonOk(w) /\ IsObject(w.data)
    THEN Some(DataPart(w.type[1].str, w.data[1].obj, metadata_from_value(w)))
    ELSE None

\* Deserialize for Part (untagged): the first variant that deserializes
from_value(w) ==
  IF text_from_value(w) # None THEN Ok(text_from_value(w)[1])
  ELSE IF filepart_from_value(w) # None THEN Ok(filepart_from_value(w)[1])
  ELSE IF datapart_from_value(w) # None THEN Ok(datapart_from_value(w)[1])
  ELSE Err("SerializationError")

\* the parts that are serialized: every variant with each optional field
\* absent and present, a type that names another variant, and data whose
\* keys are those of the other variants
Metadatas == {None, Some(<<>>), Some(<<<<"k", "v">>>>)}

Parts ==
  {TextPartOf(ty, tx, md) :
     ty \in {"text", "file"}, tx \in {"", "hi"}, md \in Metadatas}
  \cup
  {FilePart("file", FileContent(n, mt, b, u), md) :
     n \in {None, Some("a.txt")}, mt \in {None, Some("text/plain")},
     b \in {None, Some("aGk=")}, u \in {None, Some("http://h/a")},
     md \in {None, Some(<<<<"k", "v">>>>)}}
  \cup
  {DataPart(ty, d, md) :
     ty \in {"data", "text"},
     d \in {<<>>, <<<<"k", "v">>>>, <<<<"text", "hi">>>>,
            <<<<"file", "a.txt">>, <<"text", "hi">>>>},
     md \in {None, Some(<<<<"k", "v">>>>)}}

\* the JSON objects a client sends as a part: each key absent, of the type
\* its struct wants, or of another type
Wires ==
  {Wire(ty, tx, f, d, None) :
     ty \in {None, Some(JsonString("text")), Some(JsonString("data")),
             Some(JsonNumber("7"))},
     tx \in {None, Some(JsonString("hi")), Some(JsonNumber("7"))},
     f \in {None, Some(JsonObject(<<<<"uri", "http://h/a">>>>)),
            Some(JsonString("a.txt"))},
     d \in {None, Some(JsonObject(<<<<"k", "v">>>>))}}

InitCodec ==
  /\ tasks = <<>>
  /\ mutex = "Free"
  /\ task_updates = [s \in Subs |-> Receiver(FALSE, <<>>, 0)]
  /\ now = 0
  /\ pc = [p \in Procs |-> "idle"]
  /\ spc = [p \in Procs |-> "none"]
  /\ call = [p \in Procs |-> NoCall]
  /\ ret = [p \in Procs |-> NoResult]
  /\ ncalls = 0
  /\ trace = [p \in Procs |-> <<>>]
  /\ variant = "codec"
  /\ req = [p \in Procs |-> NoPayload]
  /\ resp = [p \in Procs |-> NoResponse]
  /\ agent = "Free"
  /\ processed = [p \in Procs |-> None]
  /\ part \in {None} \cup {Some(x) : x \in Parts}
  /\ wire = None
  /\ decoded = NoResult

\* serde_json::to_value(&part)
serialize ==
  /\ part # None
  /\ wire = None
  /\ wire' = Some(to_value(part[1]))
  /\ UNCHANGED <<tasks, mutex, task_updates, now, pc, spc, call, ret, ncalls,
                 trace, variant, req, resp, agent, processed, part, decoded>>

\* a JSON value arrives from a client
receive ==
  /\ part = None
  /\ wire = None
  /\ \E w \in Wires : wire' = Some(w)
  /\ UNCHANGED <<tasks, mutex, task_updates, now, pc, spc, call, ret, ncalls,
                 trace, variant, req, resp, agent, processed, part, decoded>>

\* serde_json::from_value::<Part>(value)
deserialize ==
  /\ wire # None
  /\ decoded = NoResult
  /\ decoded' = from_value(wire[1])
  /\ UNCHANGED <<tasks, mutex, task_updates, now, pc, spc, call, ret, ncalls,
                 trace, variant, req, resp, agent, processed, part, wire>>

NextCodec == serialize \/ receive \/ deserialize

SpecCodec == InitCodec /\ [][NextCodec]_vars

\* ------------------------------------- callers that keep what they were told
\* one call of a caller: what it asked, what it got, its number among all
\* calls, and how many calls had been made when it took the answer
Entry(c, r, inv, done) == [call |-> c, ret |-> r, inv |-> inv, done |-> done]

\* p1 creates, changes and reads t1; p2 writes at the same time, to t1 and
\* to t2
SeqCalls(p, ts) ==
  IF p = "p1"
    THEN {GetCall("t1"),
          CreateCall(Task("t1", Some("s1"), TaskStatus("Submitted", None, ts),
                          None, None)),
          UpdateCall("t1", TaskStatus("Working", Some(WorkingMessage), ts)),
          ArtifactCall("t1", ResultArtifact),
          CancelCall("t1")}
    ELSE {UpdateCall("t1", TaskStatus("InputRequired", None, ts)),
          ArtifactCall("t1", ChunkArtifact),
          CancelCall("t1"),
          CreateCall(Task("t2", None, TaskStatus("Submitted", None, ts),
                          None, None))}

\* The first call of a run is p1's.  An answer is taken (Complete) before
\* the next call is made, so that done is the number of calls made when the
\* call returned.
Invoke(p) ==
  /\ pc[p] = "idle"
  /\ \A q \in Procs : spc[q] # "ret"
  /\ spc[p] = "none"
  /\ (p = "p2" => trace["p1"] # <<>>)
  /\ ncalls < MaxSeqCalls
  /\ \E c \in SeqCalls(p, now) :
       /\ call' = [call EXCEPT ![p] = c]
       /\ trace' = [trace EXCEPT ![p] = Append(@, Entry(c, NoResult, ncalls + 1, 0))]
  /\ spc' = [spc EXCEPT ![p] = "lock"]
  /\ ncalls' = ncalls + 1
  /\ UNCHANGED <<tasks, mutex, task_updates, now, pc, ret, hvars>>

Complete(p) ==
  /\ pc[p] = "idle"
  /\ spc[p] = "ret"
  /\ trace' = [trace EXCEPT ![p][Len(trace[p])] =
                 Entry(call[p], ret[p], @.inv, ncalls)]
  /\ spc' = [spc EXCEPT ![p] = "none"]
  /\ call' = [call EXCEPT ![p] = NoCall]
  /\ ret' = [ret EXCEPT ![p] = NoResult]
  /\ UNCHANGED <<tasks, mutex, task_updates, now, pc, ncalls, hvars>>

NextSeq ==
  \/ \E p \in Procs : Invoke(p)
  \/ \E p \in Procs : Complete(p)
  \/ \E p \in Procs : Lock(p)
  \/ \E p \in Procs : get_task(p)
  \/ \E p \in Procs : create_task(p)
  \/ \E p \in Procs : update_task_status(p)
  \/ \E p \in Procs : add_artifact(p)
  \/ \E p \in Procs : add_artifact_push(p)
  \/ \E p \in Procs : cancel_task(p)
  \/ \E p \in Procs : send_update(p)

SpecSeq == Init /\ [][NextSeq]_vars

\* ----------------------------------------------- the dispatcher (server.rs)
KnownMethods == {"tasks/send", "tasks/get", "tasks/cancel"}

\* serde_json::from_value(payload) into SendTaskRequest, GetTaskRequest or
\* CancelTaskRequest: jsonrpc is a string, id a string or absent, params.id
\* a string, and for tasks/send params.message a Message
Decodes(payload) ==
  /\ payload.jsonrpc # None
  /\ payload.id.kind # "number"
  /\ payload.params.id # None
  /\ (payload.method = Some("tasks/send") => payload.params.message # None)

\* request.id.clone()
request_id(payload) ==
  IF payload.id.kind = "string" THEN Some(payload.id.val) ELSE None

into_response_without_error(kind) ==
  JsonRpcResponse(HttpStatus(kind), None, None, None)

\* impl IntoResponse for A2AError
into_response(kind) ==
  JsonRpcResponse(HttpStatus(kind), None, None,
                  Some(JsonRpcError(ErrorCode(kind), kind)))

success_without_id(payload, task) ==
  JsonRpcResponse(200, None, Some(task), None)

\* Ok(Json(JsonRpcResponse { id: request_id, result: Some(task), error: None }))
success(payload, task) ==
  JsonRpcResponse(200, request_id(payload), Some(task), None)

\* the texts of the Text parts, joined
RECURSIVE JoinText(_)
JoinText(parts) ==
  IF parts = <<>> THEN <<>>
  ELSE (IF Head(parts).variant = "Text" THEN Head(parts).text ELSE <<>>)
       \o JoinText(Tail(parts))

process_message(message) ==
  Message("agent",
          <<TextPart(<<"Rust A2A server received:">> \o JoinText(message.parts))>>)

\* the handler answers and is free for the next request
Respond(p, r) ==
  /\ resp' = [resp EXCEPT ![p] = r]
  /\ pc' = [pc EXCEPT ![p] = "idle"]
  /\ spc' = [spc EXCEPT ![p] = "none"]
  /\ call' = [call EXCEPT ![p] = NoCall]
  /\ ret' = [ret EXCEPT ![p] = NoResult]

\* the handler calls a store method and goes on at position next
StoreCallFrom(p, c, next) ==
  /\ call' = [call EXCEPT ![p] = c]
  /\ spc' = [spc EXCEPT ![p] = "lock"]
  /\ ret' = [ret EXCEPT ![p] = NoResult]
  /\ pc' = [pc EXCEPT ![p] = next]

SendParams(t) == Params(Some(t), Some("s1"), None, Some(UserMessage))
SendParamsCamel(t) == Params(Some(t), None, Some("s1"), Some(UserMessage))
IdParams(t) == Params(Some(t), None, None, None)
BadParams == Params(None, None, None, None)

WithId == JsonId("string", "r1")
WithoutId == JsonId("absent", "")

Payloads ==
  {Payload(Some("2.0"), i, None, IdParams("t1")) : i \in {WithId, WithoutId}}
  \cup
  {Payload(Some("2.0"), i, Some("tasks/frobnicate"), prm) :
     i \in {WithId, WithoutId}, prm \in {SendParams("t1"), BadParams}}
  \cup
  {Payload(Some("2.0"), i, Some("tasks/send"), prm) :
     i \in {WithId, WithoutId},
     prm \in {SendParams("t1"), IdParams("t1"), BadParams}}
  \cup
  {Payload(Some("2.0"), i, Some("tasks/get"), prm) :
     i \in {WithId, WithoutId},
     prm \in {IdParams("t1"), IdParams("t2"), BadParams}}
  \cup
  {Payload(Some("2.0"), i, Some("tasks/cancel"), prm) :
     i \in {WithId, WithoutId}, prm \in {IdParams("t1"), BadParams}}
  \cup
  {Payload(Some("2.0"), WithId, Some("tasks/send"), SendParamsCamel("t2")),
   Payload(None, WithId, Some("tasks/get"), IdParams("t1")),
   Payload(Some("2.0"), JsonId("number", "7"), Some("tasks/get"), IdParams("t1"))}

\* handle_request up to its first store call
handle_request(p) ==
  /\ variant = "plain"
  /\ pc[p] = "idle"
  /\ ncalls < MaxRequests
  /\ ncalls' = ncalls + 1
  /\ \E payload \in Payloads :
       /\ req' = [req EXCEPT ![p] = payload]
       /\ IF payload.method = None
            THEN Respond(p, into_response("InvalidRequest"))
          ELSE IF payload.method[1] \notin KnownMethods
            THEN Respond(p, into_response("MethodNotFound"))
          ELSE IF ~Decodes(payload)
            THEN Respond(p, into_response("SerializationError"))
          ELSE /\ resp' = [resp EXCEPT ![p] = NoResponse]
               /\ CASE payload.method[1] = "tasks/send" ->
                         StoreCallFrom(p, GetCall(payload.params.id[1]), "send_lookup")
                    [] payload.method[1] = "tasks/get" ->
                         StoreCallFrom(p, GetCall(payload.params.id[1]), "respond")
                    [] payload.method[1] = "tasks/cancel" ->
                         StoreCallFrom(p, CancelCall(payload.params.id[1]), "respond")
  /\ UNCHANGED <<tasks, mutex, task_updates, now, trace, variant, agent, processed,
                 cvars>>

handle_send_task_creating_submitted(p) ==
  /\ pc[p] = "send_lookup"
  /\ spc[p] = "ret"
  /\ LET task_id == req[p].params.id[1]
         session_id == req[p].params.session_id
         response_message == process_message(req[p].params.message[1])
     IN IF ret[p].ok
          THEN IF ret[p].val[1].status.state = "InputRequired"
                 THEN /\ StoreCallFrom(p, UpdateCall(task_id,
                              TaskStatus("Completed", Some(response_message), now)),
                            "respond")
                      /\ UNCHANGED resp
                 ELSE Respond(p, into_response("InvalidRequest"))
          ELSE /\ StoreCallFrom(p, CreateCall(
                       Task(task_id, session_id,
                            TaskStatus("Submitted", req[p].params.message, now),
                            None, None)),
                     "respond")
               /\ UNCHANGED resp
  /\ UNCHANGED <<tasks, mutex, task_updates, now, ncalls, trace, variant, req,
                 agent, processed, cvars>>

handle_send_task_in_any_state(p) ==
  /\ pc[p] = "send_lookup"
  /\ spc[p] = "ret"
  /\ LET task_id == req[p].params.id[1]
         session_id == req[p].params.session_id
         response_message == process_message(req[p].params.message[1])
     IN IF ret[p].ok
          THEN /\ StoreCallFrom(p, UpdateCall(task_id,
                       TaskStatus("Completed", Some(response_message), now)),
                     "respond")
               /\ UNCHANGED resp
          ELSE /\ StoreCallFrom(p, CreateCall(
                       Task(task_id, session_id,
                            TaskStatus("Completed", Some(response_message), now),
                            Some(<<ResultArtifact>>), None)),
                     "respond")
               /\ UNCHANGED resp
  /\ UNCHANGED <<tasks, mutex, task_updates, now, ncalls, trace, variant, req,
                 agent, processed, cvars>>

\* handle_send_task after get_task has answered
handle_send_task(p) ==
  /\ pc[p] = "send_lookup"
  /\ spc[p] = "ret"
  /\ LET task_id == req[p].params.id[1]
         session_id == req[p].params.session_id
         response_message == process_message(req[p].params.message[1])
     IN IF ret[p].ok
          THEN IF ret[p].val[1].status.state = "InputRequired"
                 THEN /\ StoreCallFrom(p, UpdateCall(task_id,
                              TaskStatus("Completed", Some(response_message), now)),
                            "respond")
                      /\ UNCHANGED resp
                 ELSE Respond(p, into_response("InvalidRequest"))
          ELSE /\ StoreCallFrom(p, CreateCall(
                       Task(task_id, session_id,
                            TaskStatus("Completed", Some(response_message), now),
                            Some(<<ResultArtifact>>), None)),
                     "respond")
               /\ UNCHANGED resp
  /\ UNCHANGED <<tasks, mutex, task_updates, now, ncalls, trace, variant, req,
                 agent, processed, cvars>>

\* the end of a match arm of handle_request: the task or the error
respond(p) ==
  /\ pc[p] = "respond"
  /\ spc[p] = "ret"
  /\ Respond(p, IF ret[p].ok THEN success(req[p], ret[p].val[1])
                             ELSE into_response(ret[p].err))
  /\ UNCHANGED <<tasks, mutex, task_updates, now, ncalls, trace, variant, req,
                 agent, processed, cvars>>

InitPlain == InitWith("plain")

\* The plain server never reaches update_task_status or add_artifact: every
\* task it stores is Completed.
NextPlain ==
  \/ \E s \in Subs : subscribe(s)
  \/ \E p \in Procs : handle_request(p)
  \/ \E p \in Procs : handle_send_task(p)
  \/ \E p \in Procs : respond(p)
  \/ \E p \in Procs : Lock(p)
  \/ \E p \in Procs : get_task(p)
  \/ \E p \in Procs : create_task(p)
  \/ \E p \in Procs : cancel_task(p)
  \/ \E p \in Procs : send_update(p)

SpecPlain == InitPlain /\ [][NextPlain]_vars

\* ------------------------ the plain server over a store that others fill
\* AppState.task_store is a public field and TaskStore clones share the map:
\* a holder of a clone creates t1 in any state, with a message and an
\* artifact
SeedTasks(ts) ==
  {Task("t1", Some("s1"), TaskStatus(st, Some(UserMessage), ts),
        Some(<<ChunkArtifact>>), None) : st \in TaskState}

\* store.create_task(task), called directly
direct_create(p) ==
  /\ variant = "plain"
  /\ pc[p] = "idle"
  /\ ncalls < MaxRequests
  /\ ncalls' = ncalls + 1
  /\ \E t \in SeedTasks(now) : StoreCallFrom(p, CreateCall(t), "direct")
  /\ UNCHANGED <<tasks, mutex, task_updates, now, trace, variant, req, resp,
                 agent, processed, cvars>>

\* the direct call has returned
direct_done(p) ==
  /\ pc[p] = "direct"
  /\ spc[p] = "ret"
  /\ pc' = [pc EXCEPT ![p] = "idle"]
  /\ spc' = [spc EXCEPT ![p] = "none"]
  /\ call' = [call EXCEPT ![p] = NoCall]
  /\ ret' = [ret EXCEPT ![p] = NoResult]
  /\ UNCHANGED <<tasks, mutex, task_updates, now, ncalls, trace, variant, req,
                 resp, agent, processed, cvars>>

NextSeeded ==
  \/ \E p \in Procs : direct_create(p)
  \/ \E p \in Procs : direct_done(p)
  \/ \E p \in Procs : handle_request(p)
  \/ \E p \in Procs : handle_send_task(p)
  \/ \E p \in Procs : respond(p)
  \/ \E p \in Procs : Lock(p)
  \/ \E p \in Procs : get_task(p)
  \/ \E p \in Procs : create_task(p)
  \/ \E p \in Procs : update_task_status(p)
  \/ \E p \in Procs : cancel_task(p)
  \/ \E p \in Procs : send_update(p)

SpecSeeded == InitPlain /\ [][NextSeeded]_vars

\* ------------------------- the agent server (agents/openai_agent/server.rs)
AgentReply == Message("agent", <<TextPart(<<"reply">>)>>)

\* OpenAIAgent::handle_task: the task with the status the adapter gives it
\* and, optionally, artifacts; or an error
AdapterOutcomes(task) ==
  {Ok([task EXCEPT !.status = TaskStatus("Completed", Some(AgentReply), now),
                   !.artifacts = Some(<<ResultArtifact, ChunkArtifact>>)]),
   Ok([task EXCEPT !.status = TaskStatus("InputRequired", Some(AgentReply), now),
                   !.artifacts = None]),
   Err("InternalServerError")}

\* handle_request of the agent server up to its first store call
agent_handle_request(p) ==
  /\ variant = "agent"
  /\ pc[p] = "idle"
  /\ ncalls < MaxRequests
  /\ ncalls' = ncalls + 1
  /\ \E payload \in Payloads :
       /\ req' = [req EXCEPT ![p] = payload]
       /\ IF payload.method = None
            THEN Respond(p, into_response("InvalidRequest"))
          ELSE IF payload.method[1] \notin KnownMethods
            THEN Respond(p, into_response("MethodNotFound"))
          ELSE IF ~Decodes(payload)
            THEN Respond(p, into_response("SerializationError"))
          ELSE /\ resp' = [resp EXCEPT ![p] = NoResponse]
               /\ CASE payload.method[1] = "tasks/send" ->
                         StoreCallFrom(p, CreateCall(
                             Task(payload.params.id[1], payload.params.session_id,
                                  TaskStatus("Submitted",
                                             Some(payload.params.message[1]), now),
                                  None, None)),
                           "a_created")
                    [] payload.method[1] = "tasks/get" ->
                         StoreCallFrom(p, GetCall(payload.params.id[1]), "a_respond")
                    [] payload.method[1] = "tasks/cancel" ->
                         StoreCallFrom(p, CancelCall(payload.params.id[1]), "a_respond")
  /\ UNCHANGED <<tasks, mutex, task_updates, now, trace, variant, agent, processed,
                 cvars>>

agent_lock_without_waiting(p) ==
  /\ pc[p] = "a_created"
  /\ spc[p] = "ret"
  /\ IF ret[p].ok
       THEN /\ agent' = p
            /\ pc' = [pc EXCEPT ![p] = "a_handle"]
            /\ UNCHANGED <<spc, call, ret, resp>>
       ELSE /\ Respond(p, into_response(ret[p].err))
            /\ UNCHANGED agent
  /\ UNCHANGED <<tasks, mutex, task_updates, now, ncalls, trace, variant, req,
                 processed, cvars>>

\* create_task(task.clone())?; let agent = state.agent.lock().await
agent_lock(p) ==
  /\ pc[p] = "a_created"
  /\ spc[p] = "ret"
  /\ IF ret[p].ok
       THEN /\ agent = "Free"
            /\ agent' = p
            /\ pc' = [pc EXCEPT ![p] = "a_handle"]
            /\ UNCHANGED <<spc, call, ret, resp>>
       ELSE /\ Respond(p, into_response(ret[p].err))
            /\ UNCHANGED agent
  /\ UNCHANGED <<tasks, mutex, task_updates, now, ncalls, trace, variant, req,
                 processed, cvars>>

handle_task_result_keeping_agent(p, out) ==
  IF out.ok
    THEN /\ processed' = [processed EXCEPT ![p] =
                            Some([task |-> out.val[1],
                                  todo |-> IF out.val[1].artifacts = None
                                             THEN <<>>
                                             ELSE out.val[1].artifacts[1]])]
         /\ StoreCallFrom(p, UpdateCall(out.val[1].id, out.val[1].status),
                          "a_updated")
         /\ UNCHANGED <<agent, resp>>
    ELSE /\ Respond(p, into_response(out.err))
         /\ UNCHANGED <<agent, processed>>

handle_task_result_marking_failed(p, out) ==
  LET r == IF out.ok THEN out.val[1]
           ELSE [ret[p].val[1] EXCEPT !.status =
                   TaskStatus("Failed", None, now)]
  IN /\ processed' = [processed EXCEPT ![p] =
                        Some([task |-> r,
                              todo |-> IF r.artifacts = None THEN <<>>
                                       ELSE r.artifacts[1]])]
     /\ StoreCallFrom(p, UpdateCall(r.id, r.status), "a_updated")
     /\ UNCHANGED <<agent, resp>>

\* let processed_task = agent.handle_task(created_task).await?; an Err
\* leaves handle_request, an Ok is followed by the update_task_status call
handle_task_result(p, out) ==
  IF out.ok
    THEN /\ processed' = [processed EXCEPT ![p] =
                            Some([task |-> out.val[1],
                                  todo |-> IF out.val[1].artifacts = None
                                             THEN <<>>
                                             ELSE out.val[1].artifacts[1]])]
         /\ StoreCallFrom(p, UpdateCall(out.val[1].id, out.val[1].status),
                          "a_updated")
         /\ UNCHANGED <<agent, resp>>
    ELSE /\ Respond(p, into_response(out.err))
         /\ agent' = "Free"
         /\ UNCHANGED processed

\* agent.handle_task(created_task).await: the adapter answers
handle_task(p) ==
  /\ pc[p] = "a_handle"
  /\ \E out \in AdapterOutcomes(ret[p].val[1]) : handle_task_result(p, out)
  /\ UNCHANGED <<tasks, mutex, task_updates, now, ncalls, trace, variant, req,
                 cvars>>

\* update_task_status(..)?; for artifact in artifacts { add_artifact(..)? };
\* then get_task is called
agent_apply(p) ==
  /\ pc[p] \in {"a_updated", "a_artifact"}
  /\ spc[p] = "ret"
  /\ IF ~ret[p].ok
       THEN /\ Respond(p, into_response(ret[p].err))
            /\ agent' = "Free"
            /\ processed' = [processed EXCEPT ![p] = None]
       ELSE /\ IF processed[p][1].todo # <<>>
                 THEN /\ StoreCallFrom(p,
                           ArtifactCall(ret[p].val[1].id,
                                        Head(processed[p][1].todo)),
                           "a_artifact")
                      /\ processed' = [processed EXCEPT ![p][1].todo = Tail(@)]
                 ELSE /\ StoreCallFrom(p, GetCall(ret[p].val[1].id), "a_final")
                      /\ UNCHANGED processed
            /\ UNCHANGED <<agent, resp>>
  /\ UNCHANGED <<tasks, mutex, task_updates, now, ncalls, trace, variant, req,
                 cvars>>

\* get_task(&updated_task.id)?; the response; the agent guard is dropped
agent_finish(p) ==
  /\ pc[p] = "a_final"
  /\ spc[p] = "ret"
  /\ Respond(p, IF ret[p].ok THEN success(req[p], ret[p].val[1])
                             ELSE into_response(ret[p].err))
  /\ agent' = "Free"
  /\ processed' = [processed EXCEPT ![p] = None]
  /\ UNCHANGED <<tasks, mutex, task_updates, now, ncalls, trace, variant, req,
                 cvars>>

\* the end of the tasks/get and tasks/cancel arms
agent_respond(p) ==
  /\ pc[p] = "a_respond"
  /\ spc[p] = "ret"
  /\ Respond(p, IF ret[p].ok THEN success(req[p], ret[p].val[1])
                             ELSE into_response(ret[p].err))
  /\ UNCHANGED <<tasks, mutex, task_updates, now, ncalls, trace, variant, req,
                 agent, processed, cvars>>

InitAgent == InitWith("agent")

NextAgent ==
  \/ \E s \in Subs : subscribe(s)
  \/ \E p \in Procs : agent_handle_request(p)
  \/ \E p \in Procs : agent_lock(p)
  \/ \E p \in Procs : handle_task(p)
  \/ \E p \in Procs : agent_apply(p)
  \/ \E p \in Procs : agent_finish(p)
  \/ \E p \in Procs : agent_respond(p)
  \/ \E p \in Procs : Lock(p)
  \/ \E p \in Procs : get_task(p)
  \/ \E p \in Procs : create_task(p)
  \/ \E p \in Procs : update_task_status(p)
  \/ \E p \in Procs : add_artifact(p)
  \/ \E p \in Procs : add_artifact_push(p)
  \/ \E p \in Procs : cancel_task(p)
  \/ \E p \in Procs : send_update(p)

SpecAgent == InitAgent /\ [][NextAgent]_vars

\* either server, with its own store
InitServer == InitPlain \/ InitAgent

NextServer ==
  \/ \E s \in Subs : subscribe(s)
  \/ \E p \in Procs : handle_request(p)
  \/ \E p \in Procs : handle_send_task(p)
  \/ \E p \in Procs : respond(p)
  \/ \E p \in Procs : agent_handle_request(p)
  \/ \E p \in Procs : agent_lock(p)
  \/ \E p \in Procs : handle_task(p)
  \/ \E p \in Procs : agent_apply(p)
  \/ \E p \in Procs : agent_finish(p)
  \/ \E p \in Procs : agent_respond(p)
  \/ \E p \in Procs : Lock(p)
  \/ \E p \in Procs : get_task(p)
  \/ \E p \in Procs : create_task(p)
  \/ \E p \in Procs : update_task_status(p)
  \/ \E p \in Procs : add_artifact(p)
  \/ \E p \in Procs : add_artifact_push(p)
  \/ \E p \in Procs : cancel_task(p)
  \/ \E p \in Procs : send_update(p)

SpecServer == InitServer /\ [][NextServer]_vars

\* ------------------------------------------- the servers, fairly scheduled
\* what the handler p does once it has taken a request: the steps of its
\* store calls, the agent lock, the adapter's answer and the response
HandlerStep(p) ==
  \/ Lock(p) \/ get_task(p) \/ create_task(p) \/ update_task_status(p)
  \/ add_artifact(p) \/ add_artifact_push(p) \/ cancel_task(p)
  \/ send_update(p)
  \/ handle_send_task(p) \/ respond(p)
  \/ agent_lock(p) \/ handle_task(p) \/ agent_apply(p) \/ agent_finish(p)
  \/ agent_respond(p)

\* the runtime runs every handler that can go on, and every adapter call
\* returns
Fairness == \A p \in Procs : WF_vars(HandlerStep(p))

SpecFair == InitServer /\ [][NextServer]_vars /\ Fairness

\* ================================================================ claims
\* p's store call returns in this step
Returns(p) == spc[p] # "ret" /\ spc'[p] = "ret"

\* C1: cancel on a stored task succeeds exactly when its state is Submitted,
\* Working or InputRequired and the stored state is then Canceled; in the
\* five other states it fails with TaskNotCancelable (code -32002) and the
\* store is left as it was.
C1_Decide(p) ==
  LET id == call[p].id IN
  (call[p].kind = "cancel_task" /\ spc[p] = "body" /\ spc'[p] # "body"
     /\ id \in DOMAIN tasks)
  => IF tasks[id].status.state \in {"Submitted", "Working", "InputRequired"}
       THEN /\ spc'[p] = "send"
            /\ DOMAIN tasks' = DOMAIN tasks
            /\ tasks'[id].status.state = "Canceled"
       ELSE /\ tasks[id].status.state \in
                 {"Completed", "Canceled", "Failed", "Rejected", "Unknown"}
            /\ spc'[p] = "ret"
            /\ ret'[p] = Err("TaskNotCancelable")
            /\ ErrorCode(ret'[p].err) = -32002
            /\ tasks' = tasks

C1_Succeed(p) ==
  (call[p].kind = "cancel_task" /\ spc[p] = "send" /\ Returns(p))
  => /\ ret'[p].ok
     /\ ret'[p].val[1].status.state = "Canceled"
     /\ tasks'[call[p].id].status.state = "Canceled"

C1_CancelLegality ==
  [][\A p \in Procs : C1_Decide(p) /\ C1_Succeed(p)]_vars

\* a second cancel after a successful one has failed with TaskNotCancelable
C1_Witness ==
  \E p \in Procs :
    /\ call[p].kind = "cancel_task" /\ spc[p] = "ret"
    /\ ret[p] = Err("TaskNotCancelable")
    /\ call[p].id \in DOMAIN tasks
    /\ tasks[call[p].id].status.state = "Canceled"

\* C2: a registered subscriber gets exactly one notification per successful
\* create, update_status, add_artifact and cancel, carrying the task as it is
\* stored right after the mutation; a failed attempt, a get and every other
\* step add nothing to what a subscriber receives.
C2_Return(p) ==
  Returns(p) =>
    IF ret'[p].ok /\ call[p].kind \in Mutating
      THEN \A s \in Subs :
             IF task_updates[s].active
               THEN task_updates'[s] =
                      Receiver(TRUE, Append(task_updates[s].queue,
                                            tasks'[call[p].id]),
                               task_updates[s].lagged)
               ELSE task_updates'[s] = task_updates[s]
      ELSE task_updates' = task_updates

C2_Otherwise ==
  (\A p \in Procs : ~Returns(p)) =>
    \A s \in Subs :
      \/ task_updates'[s].queue = task_updates[s].queue
      \/ /\ task_updates[s].queue # <<>>
         /\ task_updates'[s].queue = Tail(task_updates[s].queue)

C2_OneNotificationPerMutation ==
  [][(\A p \in Procs : C2_Return(p)) /\ C2_Otherwise]_vars

\* a subscriber holds the snapshot of a cancel that has just returned, and
\* a failed mutation has returned while it was subscribed
C2_Witness ==
  \E p, q \in Procs : \E s \in Subs :
    /\ task_updates[s].active
    /\ Len(task_updates[s].queue) = 2
    /\ spc[p] = "ret" /\ call[p].kind = "cancel_task" /\ ret[p].ok
    /\ task_updates[s].queue[2] = ret[p].val[1]
    /\ spc[q] = "ret" /\ call[q].kind \in Mutating /\ ~ret[q].ok

\* C5: get_task on an id absent from the store fails with TaskNotFound and
\* changes neither the store nor the channel.
C5_GetMissing ==
  [][\A p \in Procs :
       (call[p].kind = "get_task" /\ spc[p] = "body" /\ spc'[p] # "body"
          /\ call[p].id \notin DOMAIN tasks)
       => /\ Returns(p)
          /\ ret'[p] = Err("TaskNotFound")
          /\ tasks' = tasks
          /\ task_updates' = task_updates]_vars

\* a get of an absent id has returned TaskNotFound while another id is stored
C5_Witness ==
  \E p \in Procs :
    /\ call[p].kind = "get_task" /\ spc[p] = "ret"
    /\ call[p].id \notin DOMAIN tasks
    /\ DOMAIN tasks # {}
    /\ ret[p] = Err("TaskNotFound")

\* ---------------------------------------------------- claims on call traces
\* no store call is in progress and every answer has been taken
Quiescent == \A p \in Procs : spc[p] = "none"

Entries ==
  {e \in Procs \X (1..MaxSeqCalls) : e[2] <= Len(trace[e[1]])}

EntryAt(e) == trace[e[1]][e[2]]

\* call a had returned before call b was made
Before(a, b) == a.done < b.inv

\* a mutation of id other than u that may fall between u's return and g's
Intervenes(u, g, id) ==
  \E m \in Entries \ {u} :
    /\ EntryAt(m).call.kind \in Mutating
    /\ EntryAt(m).call.id = id
    /\ ~Before(EntryAt(m), EntryAt(u))
    /\ ~Before(EntryAt(g), EntryAt(m))

\* one call applied to a store on its own: the store after it and its result
\* (a cancel stamps the time its result carries)
Applied(store, c, r) ==
  LET id == c.id
      found == id \in DOMAIN store
      out(st, res) == [store |-> st, ret |-> res]
      upd == [store EXCEPT ![id].status = c.status[1]]
      art == [store EXCEPT ![id].artifacts =
                Some(Append(IF @ = None THEN <<>> ELSE @[1], c.artifact[1]))]
      can == [store EXCEPT ![id].status =
                TaskStatus("Canceled", @.message,
                           IF r.ok THEN r.val[1].status.timestamp ELSE 0)]
  IN CASE c.kind = "get_task" ->
            out(store, IF found THEN Ok(store[id]) ELSE Err("TaskNotFound"))
       [] c.kind = "create_task" ->
            out([k \in DOMAIN store \cup {id} |->
                   IF k = id THEN c.task[1] ELSE store[k]], Ok(c.task[1]))
       [] c.kind = "update_task_status" ->
            IF found THEN out(upd, Ok(upd[id]))
                     ELSE out(store, Err("TaskNotFound"))
       [] c.kind = "add_artifact" ->
            IF found THEN out(art, Ok(art[id]))
                     ELSE out(store, Err("TaskNotFound"))
       [] c.kind = "cancel_task" ->
            IF ~found THEN out(store, Err("TaskNotFound"))
            ELSE IF store[id].status.state \in {"Submitted", "Working", "InputRequired"}
                   THEN out(can, Ok(can[id]))
                   ELSE out(store, Err("TaskNotCancelable"))

\* the calls of the two traces from positions i and j on can be applied one
\* at a time, each caller's in its own order and no call before one that had
\* returned when it was made, so that every call gets the result it got and
\* the store ends as it is
RECURSIVE Linearized(_, _, _)
Linearized(i, j, store) ==
  LET t1 == trace["p1"]
      t2 == trace["p2"]
  IN \/ i = Len(t1) /\ j = Len(t2) /\ store = tasks
     \/ /\ i < Len(t1)
        /\ (j < Len(t2) => ~Before(t2[j + 1], t1[i + 1]))
        /\ Applied(store, t1[i + 1].call, t1[i + 1].ret).ret = t1[i + 1].ret
        /\ Linearized(i + 1, j, Applied(store, t1[i + 1].call, t1[i + 1].ret).store)
     \/ /\ j < Len(t2)
        /\ (i < Len(t1) => ~Before(t1[i + 1], t2[j + 1]))
        /\ Applied(store, t2[j + 1].call, t2[j + 1].ret).ret = t2[j + 1].ret
        /\ Linearized(i, j + 1, Applied(store, t2[j + 1].call, t2[j + 1].ret).store)

\* C3: concurrent store calls take effect atomically in one total order:
\* whenever no call is in progress, the stored tasks and every result
\* returned (those of get included) are what the calls give when applied
\* one at a time in some order that keeps each caller's own order.
C3_Linearizable == Quiescent => Linearized(0, 0, <<>>)

\* both callers have mutated t1, one of them appending an artifact, and a
\* get has returned the task with that artifact
C3_Witness ==
  /\ Quiescent
  /\ \E a \in 1..Len(trace["p1"]) : \E b \in 1..Len(trace["p2"]) :
       /\ trace["p1"][a].call.id = "t1" /\ trace["p2"][b].call.id = "t1"
       /\ trace["p1"][a].call.kind \in Mutating /\ trace["p1"][a].ret.ok
       /\ trace["p2"][b].call.kind = "add_artifact" /\ trace["p2"][b].ret.ok
       /\ ~Before(trace["p1"][a], trace["p2"][b])
       /\ ~Before(trace["p2"][b], trace["p1"][a])
  /\ \E e \in Entries :
       /\ EntryAt(e).call.kind = "get_task" /\ EntryAt(e).ret.ok
       /\ EntryAt(e).ret.val[1].artifacts # None

\* C4: a get of id made after a successful update_status(id, s) has
\* returned gives status s, provided no other mutation of id may fall in
\* between, whatever is written to other ids meanwhile.
C4_ReadAfterWrite ==
  Quiescent =>
    \A u, g \in Entries :
      (/\ EntryAt(u).call.kind = "update_task_status"
       /\ EntryAt(u).ret.ok
       /\ EntryAt(g).call.kind = "get_task"
       /\ EntryAt(g).call.id = EntryAt(u).call.id
       /\ Before(EntryAt(u), EntryAt(g))
       /\ ~Intervenes(u, g, EntryAt(u).call.id))
      => /\ EntryAt(g).ret.ok
         /\ EntryAt(g).ret.val[1].status = EntryAt(u).call.status[1]

\* a get followed an update of t1 while the other caller wrote t2 in between
C4_Witness ==
  /\ Quiescent
  /\ \E u, g, w \in Entries :
       /\ EntryAt(u).call.kind = "update_task_status" /\ EntryAt(u).ret.ok
       /\ EntryAt(g).call.kind = "get_task"
       /\ EntryAt(g).call.id = EntryAt(u).call.id
       /\ Before(EntryAt(u), EntryAt(g))
       /\ ~Intervenes(u, g, EntryAt(u).call.id)
       /\ EntryAt(g).ret.ok
       /\ w[1] # u[1]
       /\ EntryAt(w).call.kind \in Mutating /\ EntryAt(w).ret.ok
       /\ EntryAt(w).call.id # EntryAt(u).call.id
       /\ EntryAt(u).inv < EntryAt(w).inv /\ EntryAt(w).inv < EntryAt(g).inv
       /\ ~Before(EntryAt(w), EntryAt(g))

\* C6: create returns the task it stored, and a get of that id made after
\* the create has returned gives a task with the same id, session id and
\* status state, provided no other mutation of the id may fall in between.
C6_CreateThenGet ==
  Quiescent =>
    \A c \in Entries :
      EntryAt(c).call.kind = "create_task" =>
        /\ EntryAt(c).ret = Ok(EntryAt(c).call.task[1])
        /\ \A g \in Entries :
             (/\ EntryAt(g).call.kind = "get_task"
              /\ EntryAt(g).call.id = EntryAt(c).call.id
              /\ Before(EntryAt(c), EntryAt(g))
              /\ ~Intervenes(c, g, EntryAt(c).call.id))
             => /\ EntryAt(g).ret.ok
                /\ EntryAt(g).ret.val[1].id = EntryAt(c).call.task[1].id
                /\ EntryAt(g).ret.val[1].session_id = EntryAt(c).call.task[1].session_id
                /\ EntryAt(g).ret.val[1].status.state =
                     EntryAt(c).call.task[1].status.state

\* a task was created again over a changed one and the get that followed
\* returned it as created
C6_Witness ==
  /\ Quiescent
  /\ \E c, g, m \in Entries :
       /\ EntryAt(c).call.kind = "create_task"
       /\ EntryAt(g).call.kind = "get_task"
       /\ EntryAt(g).call.id = EntryAt(c).call.id
       /\ Before(EntryAt(c), EntryAt(g))
       /\ ~Intervenes(c, g, EntryAt(c).call.id)
       /\ EntryAt(m).call.kind = "cancel_task" /\ EntryAt(m).ret.ok
       /\ EntryAt(m).call.id = EntryAt(c).call.id
       /\ Before(EntryAt(m), EntryAt(c))
       /\ EntryAt(g).ret.ok
       /\ EntryAt(g).ret.val[1].status.state = "Submitted"
       /\ EntryAt(g).ret.val[1].session_id = Some("s1")

\* ------------------------------------------------- claims on the dispatcher
\* handler p takes a request in this step
Receives(p) ==
  /\ ncalls' = ncalls + 1
  /\ pc[p] = "idle"
  /\ <<req[p], resp[p], pc[p]>>' # <<req[p], resp[p], pc[p]>>

Answered(p) == resp[p] # NoResponse

\* C7: every response carries exactly one of result and error: a success
\* the task asked for and no error, a failure an error with its code and
\* message and no result.
C7_ResultXorError ==
  \A p \in Procs :
    Answered(p) =>
      \/ /\ resp[p].result # None
         /\ resp[p].error = None
         /\ resp[p].status = 200
         /\ resp[p].result[1].id = req[p].params.id[1]
      \/ /\ resp[p].result = None
         /\ resp[p].error # None
         /\ resp[p].error[1].code < 0
         /\ resp[p].status \in {400, 404, 500}

\* one handler has answered a tasks/send with the task, the other has
\* answered with an error
C7_Witness ==
  \E p, q \in Procs :
    /\ Answered(p) /\ req[p].method = Some("tasks/send") /\ resp[p].result # None
    /\ Answered(q) /\ resp[q].error # None

\* C8: the response carries the id of the request, on success and on
\* failure; it is null only when the request had no id that could be read.
C8_EchoesRequestId ==
  \A p \in Procs :
    Answered(p) =>
      resp[p].id = IF req[p].id.kind = "string" THEN Some(req[p].id.val)
                                               ELSE None

\* the params of the payload do not have the shape its method expects
ParamsMalformed(payload) ==
  /\ payload.method # None
  /\ payload.method[1] \in {"tasks/send", "tasks/get", "tasks/cancel"}
  /\ \/ payload.params.id = None
     \/ payload.method[1] = "tasks/send" /\ payload.params.message = None

\* C9: a request without a string method, or with params that do not decode
\* into the shape of its method, is answered with InvalidRequest (-32600),
\* and the store is left as it was.
C9_MalformedIsInvalidRequest ==
  [][\A p \in Procs :
       (Receives(p)
          /\ (req'[p].method = None \/ ParamsMalformed(req'[p])))
       => /\ Answered(p)'
          /\ resp'[p].error # None
          /\ resp'[p].error[1].code = -32600
          /\ tasks' = tasks]_vars

\* C10: a request whose method is a string other than tasks/send, tasks/get
\* and tasks/cancel is answered with MethodNotFound (-32601) whatever its
\* params, starts no store call, and changes neither the store nor what
\* subscribers have been sent.
C10_UnknownMethod ==
  [][\A p \in Procs :
       (Receives(p)
          /\ req'[p].method # None
          /\ req'[p].method[1] \notin {"tasks/send", "tasks/get", "tasks/cancel"})
       => /\ resp'[p] = JsonRpcResponse(404, None, None,
                          Some(JsonRpcError(-32601, "MethodNotFound")))
          /\ pc'[p] = "idle" /\ spc'[p] = "none"
          /\ tasks' = tasks
          /\ task_updates' = task_updates]_vars

\* tasks/frobnicate has been answered with -32601 while a task is stored and
\* a subscriber holds its update
C10_Witness ==
  \E p \in Procs : \E s \in Subs :
    /\ req[p].method = Some("tasks/frobnicate")
    /\ req[p].params = SendParams("t1")
    /\ Answered(p) /\ resp[p].error # None /\ resp[p].error[1].code = -32601
    /\ DOMAIN tasks # {}
    /\ task_updates[s].active /\ task_updates[s].queue # <<>>

\* ------------------------------------------------ claims on the two servers
\* handler p gives its answer in this step
Answers(p) == pc[p] # "idle" /\ pc'[p] = "idle"

\* the error codes and HTTP statuses of the domain errors
CodeTable ==
  {<<"InvalidRequest", -32600, 400>>, <<"MethodNotFound", -32601, 404>>,
   <<"TaskNotFound", -32001, 404>>, <<"TaskNotCancelable", -32002, 400>>,
   <<"UnsupportedOperation", -32004, 400>>}

\* C11: each domain error is reported with its fixed code and HTTP status,
\* every other failure with -32603 and 500; tasks/get for an id that is not
\* in the store is answered with -32001.
C11_ErrorCodes ==
  [][/\ \A kind \in A2AError :
          LET r == into_response(kind)
          IN /\ r.result = None /\ r.error # None
             /\ IF \E row \in CodeTable : row[1] = kind
                  THEN <<kind, r.error[1].code, r.status>> \in CodeTable
                  ELSE r.error[1].code = -32603 /\ r.status = 500
     /\ \A p \in Procs :
          /\ (req[p].method = Some("tasks/get") /\ spc[p] = "body"
                /\ spc'[p] = "ret" /\ call[p].id \notin DOMAIN tasks)
             => ret'[p] = Err("TaskNotFound")
          /\ (req[p].method = Some("tasks/get") /\ Answers(p) /\ ~ret[p].ok)
             => /\ resp'[p].error # None
                /\ resp'[p].error[1].code = -32001
                /\ resp'[p].status = 404
                /\ resp'[p].result = None]_vars

\* tasks/get for t2, which is not stored, has been answered with -32001
C11_Witness ==
  \E p \in Procs :
    /\ req[p].method = Some("tasks/get")
    /\ req[p].params.id = Some("t2")
    /\ "t2" \notin DOMAIN tasks
    /\ Answered(p)
    /\ resp[p].error = Some(JsonRpcError(-32001, "TaskNotFound"))
    /\ resp[p].status = 404

\* the task is Completed, carries a reply of the agent and one text artifact
CompletedWithReply(t) ==
  /\ t.status.state = "Completed"
  /\ t.status.message # None
  /\ t.status.message[1].role = "agent"
  /\ t.status.message[1].parts # <<>>
  /\ t.artifacts # None
  /\ Len(t.artifacts[1]) = 1
  /\ \A i \in 1..Len(t.artifacts[1][1].parts) :
       t.artifacts[1][1].parts[i].variant = "Text"

\* C12: on the plain server, tasks/send for an id with no stored task
\* creates the task Completed, with the agent's reply as status message and
\* exactly one text artifact; the result of the response is that task and
\* its id is the id of the request.
C12_SendCreates ==
  [][\A p \in Procs :
       (variant = "plain" /\ req[p].method = Some("tasks/send")) =>
         \* the lookup found nothing: create_task is called
         /\ (pc[p] = "send_lookup" /\ pc'[p] # pc[p] /\ ~ret[p].ok)
            => /\ call'[p].kind = "create_task"
               /\ call'[p].id = req[p].params.id[1]
               /\ spc'[p] = "lock"
         \* create_task stores the task
         /\ (call[p].kind = "create_task" /\ spc[p] = "body" /\ spc'[p] # "body")
            => /\ req[p].params.id[1] \in DOMAIN tasks'
               /\ tasks'[req[p].params.id[1]].id = req[p].params.id[1]
               /\ CompletedWithReply(tasks'[req[p].params.id[1]])
               /\ tasks'[req[p].params.id[1]].status.message[1].parts[1].text
                    = <<"Rust A2A server received:", "hi">>
         \* the answer is the created task under the id of the request
         /\ (call[p].kind = "create_task" /\ Answers(p))
            => /\ resp'[p].error = None
               /\ resp'[p].status = 200
               /\ resp'[p].result = call[p].task
               /\ CompletedWithReply(resp'[p].result[1])
               /\ resp'[p].id = IF req[p].id.kind = "string"
                                  THEN Some(req[p].id.val) ELSE None]_vars

\* Scenario A: the send of t1 with request id r1 on the plain server has
\* been answered with the Completed task that is now stored
C12_Witness ==
  \E p \in Procs :
    /\ variant = "plain"
    /\ req[p].method = Some("tasks/send")
    /\ Answered(p)
    /\ resp[p].id = Some("r1")
    /\ resp[p].result # None
    /\ CompletedWithReply(resp[p].result[1])
    /\ "t1" \in DOMAIN tasks
    /\ tasks["t1"] = resp[p].result[1]

\* C13: on the plain server, tasks/send for an id whose task exists goes on
\* only if the task it found is InputRequired, and then sets the status to
\* Completed with the reply and keeps the artifacts; if the task it found is
\* in any other state the request fails with InvalidRequest and the store is
\* left as it was.
C13_SendContinues ==
  [][\A p \in Procs :
       (variant = "plain" /\ req[p].method = Some("tasks/send")) =>
         /\ (pc[p] = "send_lookup" /\ pc'[p] # pc[p] /\ ret[p].ok)
            => IF ret[p].val[1].status.state = "InputRequired"
                 THEN /\ call'[p].kind = "update_task_status"
                      /\ call'[p].id = req[p].params.id[1]
                      /\ spc'[p] = "lock"
                 ELSE /\ resp'[p].result = None
                      /\ resp'[p].error # None
                      /\ resp'[p].error[1].code = -32600
                      /\ resp'[p].status = 400
                      /\ pc'[p] = "idle" /\ spc'[p] = "none"
                      /\ tasks' = tasks
         /\ (call[p].kind = "update_task_status" /\ spc[p] = "body"
               /\ spc'[p] = "send")
            => LET old == tasks[call[p].id]
                   new == tasks'[call[p].id]
               IN /\ new.status.state = "Completed"
                  /\ new.status.message # None
                  /\ new.status.message[1].role = "agent"
                  /\ new.status.message[1].parts[1].text
                       = <<"Rust A2A server received:", "hi">>
                  /\ new.artifacts = old.artifacts
                  /\ new.id = old.id /\ new.session_id = old.session_id
         /\ (call[p].kind = "update_task_status" /\ Answers(p) /\ ret[p].ok)
            => /\ resp'[p].error = None
               /\ resp'[p].result = ret[p].val
               /\ resp'[p].result[1].status.state = "Completed"]_vars

\* a send for t1, found InputRequired with one artifact, has been answered
\* with the task Completed, the reply attached and the artifact still there
C13_Witness ==
  \E p \in Procs :
    /\ variant = "plain"
    /\ req[p].method = Some("tasks/send") /\ Answered(p)
    /\ resp[p].result # None
    /\ resp[p].result[1].status.state = "Completed"
    /\ resp[p].result[1].status.message[1].role = "agent"
    /\ resp[p].result[1].artifacts = Some(<<ChunkArtifact>>)
    /\ tasks["t1"] = resp[p].result[1]

\* no handler but p has taken a request
Alone(p) == \A q \in Procs \ {p} : req[q] = NoPayload

\* the artifacts of a task, none and the empty list alike
ArtifactsOf(t) == IF t.artifacts = None THEN <<>> ELSE t.artifacts[1]

\* C14: on the agent server, every tasks/send stores a fresh task under the
\* given id, Submitted, with the user's message and no artifacts, whatever
\* was stored under that id, then hands it to the adapter; when the adapter
\* succeeds and no other request touches the id, the task in the response
\* has exactly the status and the artifacts the adapter returned.
C14_AgentSend ==
  [][\A p \in Procs :
       variant = "agent" =>
         \* the request is taken: create_task is called with the fresh task
         /\ (pc[p] = "idle" /\ pc'[p] = "a_created")
            => /\ req'[p].method = Some("tasks/send")
               /\ call'[p].kind = "create_task"
               /\ call'[p].task[1].id = req'[p].params.id[1]
               /\ call'[p].task[1].status.state = "Submitted"
               /\ call'[p].task[1].status.message = req'[p].params.message
               /\ call'[p].task[1].artifacts = None
         \* it is stored, whatever was there
         /\ (pc[p] = "a_created" /\ spc[p] = "body" /\ spc'[p] = "send")
            => tasks'[req[p].params.id[1]] = call[p].task[1]
         \* it is handed to the adapter
         /\ (pc[p] = "a_created" /\ pc'[p] = "a_handle")
            => ret[p] = Ok(call[p].task[1])
         \* the adapter has succeeded: the final task is what it returned
         /\ (pc[p] = "a_final" /\ Answers(p) /\ Alone(p))
            => /\ resp'[p].error = None
               /\ resp'[p].result # None
               /\ resp'[p].result[1].id = req[p].params.id[1]
               /\ resp'[p].result[1].status = processed[p][1].task.status
               /\ ArtifactsOf(resp'[p].result[1])
                    = ArtifactsOf(processed[p][1].task)
               /\ resp'[p].result[1] = tasks[req[p].params.id[1]]]_vars

\* p, the only handler at work, has had its second request, a send of t1,
\* answered with the adapter's Completed status and its two artifacts, and
\* that task is the stored one
C14_Witness ==
  \E p \in Procs :
    /\ variant = "agent" /\ Alone(p) /\ ncalls = 2
    /\ req[p].method = Some("tasks/send") /\ Answered(p)
    /\ resp[p].result # None
    /\ resp[p].result[1].status.state = "Completed"
    /\ resp[p].result[1].artifacts = Some(<<ResultArtifact, ChunkArtifact>>)
    /\ tasks["t1"] = resp[p].result[1]

\* the positions of a store operation at which its caller holds the guard
InStore == {"body", "push", "send"}

\* C15: on the agent server the adapter is never called by a handler that
\* holds the lock of the store: the lock is held only inside one store
\* operation, so a get or a cancel of another handler that waits for the
\* lock during an adapter call is kept waiting by a running store operation
\* at most, never by the adapter call.
C15_AdapterOutsideStoreLock ==
  \A p \in Procs :
    /\ mutex = p => spc[p] \in InStore
    /\ pc[p] = "a_handle" =>
         /\ mutex # p
         /\ spc[p] \notin InStore \cup {"lock"}
         /\ \A q \in Procs \ {p} :
              spc[q] = "lock" =>
                \/ mutex = "Free"
                \/ mutex \notin {p, q} /\ spc[mutex] \in InStore

\* while p's adapter call for t1 is in flight, under the agent lock, the
\* other handler's tasks/cancel of t1 has been answered with the task
\* Canceled
C15_Witness ==
  \E p \in Procs : \E q \in Procs \ {p} :
    /\ variant = "agent"
    /\ pc[p] = "a_handle" /\ agent = p
    /\ req[p].params.id = Some("t1")
    /\ req[q].method = Some("tasks/cancel") /\ req[q].params.id = Some("t1")
    /\ Answered(q) /\ resp[q].result # None
    /\ resp[q].result[1].status.state = "Canceled"
    /\ mutex = "Free"

\* the states from which no transition is permitted
Terminal == {"Completed", "Canceled", "Failed", "Rejected"}

\* C16: once the stored state of a task is terminal, no later request or
\* store operation changes the state of that task.
C16_TerminalIsFinal ==
  [][\A id \in DOMAIN tasks :
       tasks[id].status.state \in Terminal
       => /\ id \in DOMAIN tasks'
          /\ tasks'[id].status.state = tasks[id].status.state]_vars

\* C17: the timestamp of a status is the time at which the store makes the
\* transition, and per task it never decreases: each newly stored status
\* timestamp is at least the one it replaces.
C17_TimestampMonotone ==
  [][\A id \in DOMAIN tasks \cap DOMAIN tasks' :
       tasks'[id].status # tasks[id].status
       => /\ tasks'[id].status.timestamp = now
          /\ tasks'[id].status.timestamp >= tasks[id].status.timestamp]_vars

\* C18: tasks are never deleted: the set of stored ids only grows, a
\* create_task leaves its id stored, and get_task, update_task_status,
\* add_artifact and cancel_task fail with TaskNotFound only for an id that
\* is not stored, hence for one that was never created.
C18_NeverDeleted ==
  [][/\ DOMAIN tasks \subseteq DOMAIN tasks'
     /\ \A p \in Procs :
          /\ (call[p].kind = "create_task" /\ spc[p] = "body" /\ spc'[p] # "body")
             => call[p].id \in DOMAIN tasks'
          /\ (spc[p] \in InStore /\ spc'[p] = "ret")
             => IF call[p].id \in DOMAIN tasks
                  THEN /\ ret'[p].err # "TaskNotFound"
                       /\ call[p].id \in DOMAIN tasks'
                  ELSE ret'[p] = Err("TaskNotFound")]_vars

\* three calls were made, t1 and t2 are stored, and the cancel of t1 has
\* found its task
C18_Witness ==
  /\ DOMAIN tasks = {"t1", "t2"}
  /\ ncalls = 3
  /\ \E p \in Procs :
       /\ spc[p] = "ret"
       /\ call[p] = CancelCall("t1")
       /\ ret[p].ok
       /\ tasks["t1"].status.state = "Canceled"

\* ------------------------------------------------- claims on the wire form
\* C19: a Part that is encoded and decoded again is a Part of the same
\* variant with equal content; the decoder takes the variant from the key
\* that is present, trying text, then file, then data, whatever the value
\* of type is.
C19_PartRoundTrip ==
  /\ (part # None /\ decoded # NoResult)
     => /\ decoded.ok
        /\ decoded.val[1].variant = part[1].variant
        /\ decoded.val = part
  /\ (wire # None /\ decoded # NoResult /\ decoded.ok)
     => decoded.val[1].variant =
          IF IsString(wire[1].text) THEN "Text"
          ELSE IF IsObject(wire[1].file) THEN "File"
          ELSE "Data"

\* a Data part whose type says text and whose data has the keys file and
\* text has come back as the same Data part
C19_Witness ==
  /\ part = Some(DataPart("text", <<<<"file", "a.txt">>, <<"text", "hi">>>>,
                          Some(<<<<"k", "v">>>>)))
  /\ wire # None
  /\ decoded = Ok(part[1])

\* ------------------------------------------------ claims on the agent server
\* C20: on the agent server, when the adapter call fails the tasks/send
\* request is answered with an error envelope and the call is not made
\* again: no status update and no artifact is applied for the request, and
\* the task stays stored as it was created, Submitted with the user's
\* message.  A status update that follows the adapter call carries a status
\* the adapter returned.
C20_AdapterFailure ==
  [][\A p \in Procs :
       (variant = "agent" /\ pc[p] = "a_handle" /\ pc'[p] # "a_handle") =>
         \/ /\ pc'[p] = "idle"
            /\ resp'[p].result = None
            /\ resp'[p].error # None
            /\ resp'[p].error[1].code = -32603
            /\ resp'[p].status = 500
            /\ spc'[p] = "none" /\ call'[p] = NoCall
            /\ processed'[p] = None
            /\ agent' = "Free"
            /\ tasks' = tasks
            /\ task_updates' = task_updates
            /\ Alone(p) =>
                 /\ req[p].params.id[1] \in DOMAIN tasks
                 /\ tasks[req[p].params.id[1]].status.state = "Submitted"
                 /\ tasks[req[p].params.id[1]].status.message
                      = req[p].params.message
                 /\ tasks[req[p].params.id[1]].artifacts = None
         \/ /\ pc'[p] = "a_updated"
            /\ call'[p].kind = "update_task_status"
            /\ \E out \in AdapterOutcomes(ret[p].val[1]) :
                 out.ok /\ call'[p].status = Some(out.val[1].status)
            /\ tasks' = tasks]_vars

\* the one request, a send of t1, has been answered with the adapter's
\* error; t1 is stored as created and the agent is free again
C20_Witness ==
  \E p \in Procs :
    /\ variant = "agent" /\ Alone(p) /\ ncalls = 1
    /\ req[p].method = Some("tasks/send") /\ Answered(p)
    /\ resp[p].error = Some(JsonRpcError(-32603, "InternalServerError"))
    /\ "t1" \in DOMAIN tasks
    /\ tasks["t1"].status.state = "Submitted"
    /\ tasks["t1"].status.message = Some(UserMessage)
    /\ tasks["t1"].artifacts = None
    /\ agent = "Free" /\ pc[p] = "idle"

\* a step of the store operation that holds the mutex
StoreStep(h) ==
  \/ get_task(h) \/ create_task(h) \/ update_task_status(h)
  \/ add_artifact(h) \/ add_artifact_push(h) \/ cancel_task(h)
  \/ send_update(h)

\* q serves a tasks/get or tasks/cancel for the id whose adapter call p
\* is waiting for
DuringAdapter(p, q) ==
  /\ variant = "agent"
  /\ p # q
  /\ pc[p] = "a_handle"
  /\ pc[q] = "a_respond"
  /\ req[q].params.id = req[p].params.id

\* q's request goes on whenever the store mutex allows it, whoever holds
\* the agent
C21_NoWait(p, q) ==
  DuringAdapter(p, q) =>
    /\ agent = p
    /\ (spc[q] = "lock" /\ mutex = "Free") => ENABLED Lock(q)
    /\ (spc[q] = "lock" /\ mutex # "Free") =>
         (spc[mutex] \in InStore /\ ENABLED StoreStep(mutex))
    /\ spc[q] \in InStore => (mutex = q /\ ENABLED StoreStep(q))
    /\ spc[q] = "ret" => ENABLED agent_respond(q)

\* what q's store call does when these are the only two requests
C21_Observes(p, q) ==
  LET id == call[q].id IN
  (DuringAdapter(p, q) /\ spc[q] = "body" /\ spc'[q] # "body") =>
    /\ id \in DOMAIN tasks
    /\ call[q].kind = "get_task" =>
         /\ ret'[q] = Ok(tasks[id])
         /\ tasks' = tasks
    /\ ncalls = 2 =>
         /\ tasks[id] = ret[p].val[1]
         /\ tasks[id].status.state = "Submitted"
         /\ tasks[id].status.message = req[p].params.message
         /\ tasks[id].artifacts = None
         /\ call[q].kind = "cancel_task" =>
              /\ spc'[q] = "send"
              /\ tasks'[id].status =
                   TaskStatus("Canceled", req[p].params.message, now)

\* C21: on the agent server, while the adapter call of a tasks/send is in
\* flight, a concurrent tasks/get on the same id returns the stored task,
\* which is the task as created (Submitted, the user's message, no
\* artifacts) when no third request has come in, and a concurrent
\* tasks/cancel then succeeds and stores Canceled; neither waits for the
\* adapter: each of their steps is enabled as soon as the store mutex is
\* free, and the holder of the store mutex can always go on.
C21_DuringAdapter ==
  /\ [](\A p, q \in Procs : C21_NoWait(p, q))
  /\ [][\A p, q \in Procs : C21_Observes(p, q)]_vars

\* p's adapter call is still in flight, and q's tasks/cancel of the same id
\* has been answered with the task, now stored as Canceled
C21_Witness ==
  \E p, q \in Procs :
    /\ variant = "agent" /\ p # q
    /\ pc[p] = "a_handle" /\ agent = p
    /\ req[q].method = Some("tasks/cancel")
    /\ req[q].params.id = req[p].params.id
    /\ pc[q] = "idle" /\ resp[q].error = None /\ resp[q].result # None
    /\ resp[q].result[1].status.state = "Canceled"
    /\ resp[q].result[1].status.message = req[p].params.message
    /\ tasks[req[p].params.id[1]].status.state = "Canceled"

\* ------------------------------------------ what a store operation changes
\* every task but the one under id is as it was, and no id came or went
OthersUnchanged(id) ==
  /\ DOMAIN tasks' = DOMAIN tasks \cup {id}
  /\ \A k \in DOMAIN tasks \ {id} : tasks'[k] = tasks[k]

\* C22: a successful cancel changes only the status of the task: the new
\* status has state Canceled, the message the status had and the time of the
\* cancel; id, session id, artifacts and metadata of the task and every other
\* task are as before, and the task returned is the stored one.
C22_CancelFrame ==
  [][\A p \in Procs :
       LET id == call[p].id IN
       /\ (call[p].kind = "cancel_task" /\ spc[p] = "body" /\ spc'[p] = "send") =>
            /\ id \in DOMAIN tasks
            /\ OthersUnchanged(id)
            /\ DOMAIN tasks' = DOMAIN tasks
            /\ tasks'[id].status.state = "Canceled"
            /\ tasks'[id].status.message = tasks[id].status.message
            /\ tasks'[id].status.timestamp = now
            /\ tasks'[id].id = tasks[id].id
            /\ tasks'[id].session_id = tasks[id].session_id
            /\ tasks'[id].artifacts = tasks[id].artifacts
            /\ tasks'[id].metadata = tasks[id].metadata
       /\ (call[p].kind = "cancel_task" /\ spc[p] = "send" /\ Returns(p)) =>
            /\ tasks' = tasks
            /\ ret'[p] = Ok(tasks[id])]_vars

\* a cancel of t1, stored earlier with every optional field set, has
\* returned at a later time than t1's creation, while t2 is stored too
C22_Witness ==
  \E p \in Procs :
    /\ call[p].kind = "cancel_task" /\ call[p].id = "t1" /\ spc[p] = "ret"
    /\ ret[p].ok
    /\ "t2" \in DOMAIN tasks
    /\ tasks["t1"] = Task("t1", Some("s1"),
                          TaskStatus("Canceled", Some(UserMessage), 1),
                          Some(<<ResultArtifact>>), Some("meta"))
    /\ ret[p].val[1] = tasks["t1"]

\* C23: update_task_status(id, s) on a stored task replaces the status by s
\* whatever the current state is, terminal or not, and leaves id, session
\* id, artifacts and metadata of the task and all other tasks as they were;
\* on an id that is not stored it returns TaskNotFound, changes nothing and
\* stores no task.
C23_UpdateFrame ==
  [][\A p \in Procs :
       LET id == call[p].id IN
       (call[p].kind = "update_task_status" /\ spc[p] = "body"
          /\ spc'[p] # "body") =>
         IF id \in DOMAIN tasks
           THEN /\ spc'[p] = "send"
                /\ OthersUnchanged(id)
                /\ DOMAIN tasks' = DOMAIN tasks
                /\ tasks'[id].status = call[p].status[1]
                /\ tasks'[id].id = tasks[id].id
                /\ tasks'[id].session_id = tasks[id].session_id
                /\ tasks'[id].artifacts = tasks[id].artifacts
                /\ tasks'[id].metadata = tasks[id].metadata
           ELSE /\ Returns(p)
                /\ ret'[p] = Err("TaskNotFound")
                /\ tasks' = tasks
                /\ task_updates' = task_updates
                /\ id \notin DOMAIN tasks']_vars

\* q's create of t1 as Completed has returned, and after it p's update of
\* t1 to Working has returned the task that is now stored
C23_Witness ==
  \E p, q \in Procs :
    /\ p # q
    /\ call[q].kind = "create_task" /\ spc[q] = "ret"
    /\ ret[q].val[1].id = "t1" /\ ret[q].val[1].status.state = "Completed"
    /\ call[p].kind = "update_task_status" /\ call[p].id = "t1"
    /\ call[p].status[1].state = "Working"
    /\ spc[p] = "ret" /\ ret[p].ok
    /\ ret[p].val[1] = tasks["t1"]
    /\ tasks["t1"].status = call[p].status[1]

\* all of the task under id but its artifacts is as it was
SameButArtifacts(id) ==
  /\ tasks'[id].id = tasks[id].id
  /\ tasks'[id].session_id = tasks[id].session_id
  /\ tasks'[id].status = tasks[id].status
  /\ tasks'[id].metadata = tasks[id].metadata

\* C24: add_artifact(id, a) on a stored task makes its artifacts the ones it
\* had (none, when the field was not set) followed by a, whatever the index
\* and append fields of a are, and leaves the status, the other fields and
\* all other tasks as they were; on an id that is not stored it returns
\* TaskNotFound and changes nothing.
C24_AddArtifactFrame ==
  [][\A p \in Procs :
       LET id == call[p].id IN
       /\ (call[p].kind = "add_artifact" /\ spc[p] = "body"
             /\ spc'[p] # "body") =>
            IF id \in DOMAIN tasks
              THEN /\ spc'[p] = "push"
                   /\ OthersUnchanged(id)
                   /\ DOMAIN tasks' = DOMAIN tasks
                   /\ SameButArtifacts(id)
                   /\ tasks'[id].artifacts = Some(ArtifactsOf(tasks[id]))
              ELSE /\ Returns(p)
                   /\ ret'[p] = Err("TaskNotFound")
                   /\ tasks' = tasks
                   /\ task_updates' = task_updates
       /\ (spc[p] = "push" /\ spc'[p] # "push") =>
            /\ call[p].kind = "add_artifact"
            /\ spc'[p] = "send"
            /\ OthersUnchanged(id)
            /\ DOMAIN tasks' = DOMAIN tasks
            /\ SameButArtifacts(id)
            /\ tasks'[id].artifacts =
                 Some(Append(ArtifactsOf(tasks[id]), call[p].artifact[1]))
       /\ (call[p].kind = "add_artifact" /\ spc[p] = "send" /\ Returns(p)) =>
            /\ tasks' = tasks
            /\ ret'[p] = Ok(tasks[id])]_vars

\* an artifact of index 0 has been added to t1, which had one of index 0:
\* t1 has both, the new one last, and the status it was created with
C24_Witness ==
  \E p \in Procs :
    /\ call[p] = ArtifactCall("t1", ResultArtifact)
    /\ spc[p] = "ret" /\ ret[p].ok
    /\ ret[p].val[1] = tasks["t1"]
    /\ tasks["t1"].artifacts = Some(<<ResultArtifact, ResultArtifact>>)
    /\ tasks["t1"].status.state = "Working"
    /\ tasks["t1"].status.message = Some(UserMessage)

\* C25: create_task(task) never fails: whether or not a task is stored under
\* task.id, and whatever its state, the stored record becomes the new task
\* as a whole (status, artifacts, session id, metadata), the task is
\* published to the subscribers and returned, and the tasks under other ids
\* are as they were.
C25_CreateOverwrites ==
  [][\A p \in Procs :
       LET t == call[p].task[1] IN
       /\ (call[p].kind = "create_task" /\ spc[p] = "body"
             /\ spc'[p] # "body") =>
            /\ spc'[p] = "send"
            /\ call[p].id = t.id
            /\ OthersUnchanged(t.id)
            /\ tasks'[t.id] = t
       /\ (call[p].kind = "create_task" /\ Returns(p)) =>
            /\ spc[p] = "send"
            /\ ret'[p] = Ok(t)
            /\ tasks' = tasks
            /\ tasks[t.id] = t
            /\ \A s \in Subs :
                 task_updates[s].active =>
                   task_updates'[s].queue = Append(task_updates[s].queue, t)]_vars

\* t1 was created with every optional field set and then created again
\* with none: the second task is stored as it is, both creates returned
\* their task, and the subscriber got the two in that order
C25_Witness ==
  \E p, q \in Procs :
    LET full == Task("t1", Some("s1"),
                     TaskStatus("Working", Some(UserMessage), 0),
                     Some(<<ResultArtifact>>), Some("meta"))
        bare == Task("t1", None, TaskStatus("Submitted", None, 0), None, None)
    IN /\ p # q
       /\ call[q].kind = "create_task" /\ spc[q] = "ret" /\ ret[q] = Ok(full)
       /\ call[p].kind = "create_task" /\ spc[p] = "ret" /\ ret[p] = Ok(bare)
       /\ tasks["t1"] = bare
       /\ task_updates["s1"].queue = <<full, bare>>

\* ------------------------------------------------- claims on the channel
\* the values of a queue
Queued(q) == {q[i] : i \in 1..Len(q)}

\* what the send at the end of p's mutation does to a receiver
C26_Publish(p, s) ==
  LET r == task_updates[s]
      t == ret'[p].val[1]
  IN IF ~r.active
       THEN task_updates'[s] = r /\ r.queue = <<>>
     ELSE IF Len(r.queue) < ChannelCapacity
       THEN task_updates'[s] = Receiver(TRUE, Append(r.queue, t), r.lagged)
     ELSE task_updates'[s] =
            Receiver(TRUE, Append(Tail(r.queue), t), r.lagged + 1)

C26_Step ==
  /\ \A p \in Procs :
       (spc[p] = "send" /\ Returns(p)) =>
         /\ ret'[p].ok
         /\ tasks' = tasks
         /\ \A s \in Subs : C26_Publish(p, s)
  /\ \A s \in Subs :
       /\ \A x \in Queued(task_updates'[s].queue) \ Queued(task_updates[s].queue) :
            /\ task_updates[s].active
            /\ \E p \in Procs :
                 spc[p] = "send" /\ Returns(p) /\ x = ret'[p].val[1]
       /\ (~task_updates[s].active /\ task_updates'[s].active) =>
            task_updates'[s] = Receiver(TRUE, <<>>, 0)

\* what a receiver holds: at most a buffer of values, each the update right
\* after the one before it, and the number of values it has lost
C26_Held(s) ==
  LET q == task_updates[s].queue IN
  /\ Len(q) <= ChannelCapacity
  /\ \A i \in 1..(Len(q) - 1) :
       q[i + 1].status.timestamp = q[i].status.timestamp + 1
  /\ task_updates[s].lagged > 0 => Len(q) = ChannelCapacity
  /\ ~task_updates[s].active => (q = <<>> /\ task_updates[s].lagged = 0)

\* C26: the send of an update never blocks and never makes the mutation
\* fail, with no subscriber, with subscribers and with a subscriber that
\* holds a full buffer of 100 values; a subscriber that is a buffer behind
\* loses its oldest value for each new one and holds the others in the order
\* they were published; and a subscriber is given only values published
\* while it was subscribed.
C26_BestEffortPublish ==
  /\ [](\A p \in Procs : spc[p] = "send" => ENABLED send_update(p))
  /\ [](\A s \in Subs : C26_Held(s))
  /\ [][C26_Step]_vars

\* the subscriber was there for all of 102 updates and took none: it holds
\* the last 100 in order and has lost the first two
C26_Witness ==
  /\ ncalls = 102
  /\ spc[Publisher] = "ret" /\ ret[Publisher].ok
  /\ task_updates["s1"].active
  /\ task_updates["s1"].lagged = 2
  /\ Len(task_updates["s1"].queue) = ChannelCapacity
  /\ task_updates["s1"].queue[1].status.timestamp = 3
  /\ task_updates["s1"].queue[ChannelCapacity] = ret[Publisher].val[1]
  /\ ret[Publisher].val[1].status.timestamp = 102

\* ------------------------------- claims on how the adapter's result is applied
\* the handler's store calls after the adapter call: the status update, then
\* one add_artifact per artifact in the adapter's order, then the get
C27_Order(p) ==
  /\ (pc[p] = "a_handle" /\ pc'[p] = "a_updated") =>
       /\ processed'[p] # None
       /\ call'[p] = UpdateCall(processed'[p][1].task.id,
                                processed'[p][1].task.status)
       /\ processed'[p][1].todo = ArtifactsOf(processed'[p][1].task)
  /\ (pc[p] \in {"a_updated", "a_artifact"} /\ spc[p] = "ret"
        /\ spc'[p] # "ret") =>
       IF ~ret[p].ok THEN pc'[p] = "idle"
       ELSE IF processed[p][1].todo # <<>>
         THEN /\ pc'[p] = "a_artifact"
              /\ call'[p] = ArtifactCall(processed[p][1].task.id,
                                         Head(processed[p][1].todo))
              /\ processed'[p][1].todo = Tail(processed[p][1].todo)
         ELSE /\ pc'[p] = "a_final"
              /\ call'[p] = GetCall(processed[p][1].task.id)
  /\ tasks' # tasks => (mutex # "Free" /\ mutex' = mutex)

\* the calls of one request alone are in that order
C27_OrderOnly == [][\A p \in Procs : C27_Order(p)]_vars

\* no stored task has the status it was created with and an artifact
C27_NoArtifactBeforeStatus ==
  \A id \in DOMAIN tasks :
    (variant = "agent" /\ ArtifactsOf(tasks[id]) # <<>>)
      => tasks[id].status.state # "Submitted"

\* C27: on the agent server, the result of an adapter call is applied as one
\* status update followed by one add_artifact per artifact, in the adapter's
\* order, each under the store lock; the update comes before every append,
\* so that the store never holds an artifact of a request together with the
\* status the task had before the reply.
C27_StatusBeforeArtifacts ==
  /\ C27_OrderOnly
  /\ []C27_NoArtifactBeforeStatus

\* ------------------------------------------------ claims on the plain server
\* the handlers whose tasks/send of id has been answered with a task
SendSucceeded(id) ==
  {p \in Procs : /\ req[p].method = Some("tasks/send")
                 /\ req[p].params.id = Some(id)
                 /\ pc[p] = "idle"
                 /\ resp[p].result # None}

\* C28: on the plain server, of the tasks/send requests for an id that was
\* not stored, concurrent ones included, exactly one creates the task and
\* the others fail with InvalidRequest: no create_task of a handler finds
\* the id stored by another request since the handler looked it up.
C28_OneSendCreates ==
  /\ [](variant = "plain" =>
          \A id \in TaskIds : Cardinality(SendSucceeded(id)) <= 1)
  /\ [][\A p \in Procs :
          (variant = "plain" /\ call[p].kind = "create_task"
             /\ spc[p] = "body" /\ spc'[p] # "body")
          => call[p].id \notin DOMAIN tasks]_vars

\* every stored task is Completed, with the server's reply as its message
\* and one artifact
C29_AllCompleted ==
  \A id \in DOMAIN tasks :
    /\ tasks[id].status.state = "Completed"
    /\ tasks[id].status.message # None
    /\ tasks[id].status.message[1].role = "agent"
    /\ Len(ArtifactsOf(tasks[id])) = 1

\* a cancel never succeeds, and no handler ever updates a status
C29_NoCancelNoUpdate ==
  \A p \in Procs :
    /\ call[p].kind # "update_task_status"
    /\ (call[p].kind = "cancel_task" /\ spc[p] = "ret") =>
         ret[p] \in {Err("TaskNotFound"), Err("TaskNotCancelable")}
    /\ (req[p].method = Some("tasks/cancel") /\ Answered(p)) =>
         /\ resp[p].result = None
         /\ resp[p].error # None
         /\ resp[p].error[1].code \in {-32001, -32002, -32603}

\* a tasks/send whose lookup finds the id stored is refused
C29_StoredIsRefused ==
  \A p \in Procs :
    (pc[p] = "send_lookup" /\ spc[p] = "ret" /\ ret[p].ok /\ pc'[p] # pc[p]) =>
      /\ pc'[p] = "idle"
      /\ resp'[p] = into_response("InvalidRequest")
      /\ tasks' = tasks

\* C29: the plain server, driven through its dispatcher from an empty store,
\* only ever stores tasks that are Completed with a reply message and one
\* artifact; so a tasks/cancel never succeeds (TaskNotFound or
\* TaskNotCancelable), the InputRequired branch of tasks/send is never
\* taken, and a tasks/send that finds its id stored fails with
\* InvalidRequest.
C29_PlainOnlyCompleted ==
  /\ [](variant = "plain" => (C29_AllCompleted /\ C29_NoCancelNoUpdate))
  /\ [][variant = "plain" => C29_StoredIsRefused]_vars

\* a tasks/send has been answered with t1 as it is stored, and a
\* tasks/cancel of t1 has been answered TaskNotCancelable
C29_Witness ==
  \E p, q \in Procs :
    /\ variant = "plain" /\ p # q
    /\ "t1" \in DOMAIN tasks
    /\ req[p].method = Some("tasks/send") /\ pc[p] = "idle"
    /\ resp[p].result = Some(tasks["t1"])
    /\ req[q].method = Some("tasks/cancel") /\ pc[q] = "idle"
    /\ resp[q].error = Some(JsonRpcError(-32002, "TaskNotCancelable"))

\* ------------------------------------- claims on the order of notifications
\* the snapshots of id in a queue, in the order they are held
RECURSIVE SnapshotsOf(_, _)
SnapshotsOf(q, id) ==
  IF q = <<>> THEN <<>>
  ELSE (IF Head(q).id = id THEN <<Head(q)>> ELSE <<>>)
       \o SnapshotsOf(Tail(q), id)

\* a mutation has been applied and its notification is still to be sent
Unpublished == \E p \in Procs : spc[p] \in {"push", "send"}

\* the send is made by the holder of the lock and carries the task as it is
\* stored at that moment
C30_SentUnderLock ==
  \A p \in Procs :
    /\ spc[p] \in {"push", "send"} => mutex = p
    /\ (spc[p] = "send" /\ Returns(p)) =>
         /\ tasks' = tasks
         /\ ret'[p].val[1] = tasks[call[p].id]
         /\ \A s \in Subs :
              task_updates[s].active =>
                /\ task_updates'[s].queue # <<>>
                /\ task_updates'[s].queue[Len(task_updates'[s].queue)]
                     = tasks[call[p].id]

\* the latest snapshot of an id that a subscriber holds is the stored task,
\* whenever no notification is outstanding
C30_LastIsCurrent ==
  \A s \in Subs : \A id \in TaskIds :
    LET sn == SnapshotsOf(task_updates[s].queue, id) IN
    (sn # <<>> /\ ~Unpublished) =>
      /\ id \in DOMAIN tasks
      /\ sn[Len(sn)] = tasks[id]

\* C30: notifications are published in the order in which the mutations are
\* applied, each being sent while the store lock is still held with the task
\* as stored at that moment: a subscriber holds the snapshots of an id in
\* mutation order, and when no call is in progress the last snapshot it got
\* for an id is what get_task(id) returns.
C30_PublishedInOrder ==
  /\ [][C30_SentUnderLock]_vars
  /\ []C30_LastIsCurrent

\* every call has returned; the subscriber missed nothing and holds three
\* snapshots of t1, the last two different, the last one the stored task
C30_Witness ==
  \E s \in Subs :
    /\ \A p \in Procs : spc[p] = "ret"
    /\ task_updates[s].active /\ task_updates[s].lagged = 0
    /\ Len(SnapshotsOf(task_updates[s].queue, "t1")) = 3
    /\ task_updates[s].queue[2] # task_updates[s].queue[3]
    /\ task_updates[s].queue[3] = tasks["t1"]

\* ------------------------------------------------------ claims on progress
\* the store lock is held only inside a store method, so never while a
\* handler waits for the agent lock or for the adapter
C31_LockOnlyInStore ==
  \A p \in Procs :
    /\ mutex = p => spc[p] \in InStore
    /\ (pc[p] \in {"a_created", "a_handle"} /\ spc[p] = "ret") => mutex # p

\* a store method waits for the store lock and for nothing else
C31_StoreNeverStuck ==
  \A p \in Procs :
    /\ (spc[p] = "lock" /\ mutex = "Free") => ENABLED Lock(p)
    /\ spc[p] \in InStore => (mutex = p /\ ENABLED StoreStep(p))

\* some handler can always go on while a request is being served
C31_NoDeadlock ==
  (\E p \in Procs : pc[p] # "idle") => \E p \in Procs : ENABLED HandlerStep(p)

\* C31: no interleaving of requests deadlocks: a handler never waits for the
\* agent lock while it holds the store lock, a store operation waits for
\* nothing but the store lock, and so, when every handler that can go on
\* does and every adapter call returns, every request is answered.
C31_EveryRequestCompletes ==
  /\ [](C31_LockOnlyInStore /\ C31_StoreNeverStuck /\ C31_NoDeadlock)
  /\ \A p \in Procs : (pc[p] # "idle") ~> (pc[p] = "idle")

\* two tasks/send requests to the agent server, which needed the same agent
\* lock, have both been answered with a task
C31_Witness ==
  /\ variant = "agent"
  /\ ncalls = 2
  /\ \A p \in Procs :
       /\ req[p].method = Some("tasks/send")
       /\ pc[p] = "idle"
       /\ resp[p].result # None
       /\ resp[p].result[1].status.state \in {"Completed", "InputRequired"}
  /\ agent = "Free" /\ mutex = "Free"

\* ------------------------------------------------ claims on the agent lock
\* where a tasks/send handler is between taking the agent lock and its
\* response
UnderAgentLock == {"a_handle", "a_updated", "a_artifact", "a_final"}

\* the agent lock is held exactly from the adapter call to the response, by
\* one handler; a status update or an add_artifact is only ever called by
\* the handler that holds it
C32_HeldThroughout ==
  variant = "agent" =>
    /\ \A p \in Procs : (pc[p] \in UnderAgentLock) <=> (agent = p)
    /\ Cardinality({p \in Procs : pc[p] = "a_handle"}) <= 1
    /\ Cardinality({p \in Procs : pc[p] \in UnderAgentLock}) <= 1
    /\ \A p \in Procs :
         call[p].kind \in {"update_task_status", "add_artifact"} => agent = p

\* while one handler holds the agent lock, the store is changed only by it
\* or by the create_task or cancel_task of another request
C32_OnlyCreateOrCancelBetween ==
  \A p, q \in Procs :
    (variant = "agent" /\ agent = p /\ q # p /\ mutex = q /\ tasks' # tasks)
      => call[q].kind \in {"create_task", "cancel_task"}

\* C32: on the agent server the agent lock is held from before the adapter
\* call until after the request's last store operation: at most one adapter
\* call is in flight, and the status update and artifact appends of one
\* tasks/send are not interleaved with those of another; only the create of
\* another tasks/send and tasks/get and tasks/cancel requests can fall in
\* between.
C32_AgentLockSpan ==
  /\ []C32_HeldThroughout
  /\ [][C32_OnlyCreateOrCancelBetween]_vars

\* p holds the agent lock and has added an artifact, while q's tasks/send
\* has created its task and waits for the agent lock
C32_Witness ==
  \E p, q \in Procs :
    /\ variant = "agent" /\ p # q
    /\ agent = p /\ pc[p] = "a_artifact" /\ spc[p] = "ret" /\ ret[p].ok
    /\ pc[q] = "a_created" /\ spc[q] = "ret" /\ ret[q].ok
    /\ call[q].kind = "create_task"

\* ----------------------------------- claims on the artifacts of two requests
\* a is b with some of its elements left out
RECURSIVE IsSubsequence(_, _)
IsSubsequence(a, b) ==
  IF a = <<>> THEN TRUE
  ELSE IF b = <<>> THEN FALSE
  ELSE IF Head(a) = Head(b) THEN IsSubsequence(Tail(a), Tail(b))
  ELSE IsSubsequence(a, Tail(b))

\* the artifacts of t are artifacts of one adapter call
FromOneCall(t) ==
  \E out \in AdapterOutcomes(t) :
    out.ok /\ IsSubsequence(ArtifactsOf(t), ArtifactsOf(out.val[1]))

\* C33: on the agent server the task returned by a successful tasks/send,
\* and the task stored under an id once all requests are answered, carries
\* artifacts of a single adapter call only: the artifacts of two tasks/send
\* requests for one id, sequential or concurrent, never add up in one task.
C33_ArtifactsOfOneCall ==
  variant = "agent" =>
    /\ \A p \in Procs :
         (req[p].method = Some("tasks/send") /\ pc[p] = "idle"
            /\ resp[p].result # None)
         => FromOneCall(resp[p].result[1])
    /\ (\A p \in Procs : pc[p] = "idle") =>
         \A id \in DOMAIN tasks : FromOneCall(tasks[id])

====
